---- MODULE Spec2Model ----
(***************************************************************************)
(* A model of the TSQL scanner, parser and AST serializer.  Text is a      *)
(* sequence of one-character strings; the reader, the scanner, the         *)
(* buffered scanner and the recursive-descent parser are operators over    *)
(* one parser state record that is threaded through them, as the Go code   *)
(* threads *Parser.                                                        *)
(***************************************************************************)
EXTENDS Integers, Sequences, FiniteSets, TLC

VARIABLES
  input,    \* the query text given to NewParser (sequence of runes)
  params,   \* the map the caller hands to SetParams: name -> raw value
  shape,    \* how input was put together (used to state properties only)
  pc,       \* position of the caller
  pst,      \* the *Parser: reader, scanner buffers and bound parameters
  result,   \* what the entry point returned: [err, v]
  printed,  \* String() of the parsed statement
  result2,  \* what parsing printed again returned: [err, v]
  semi,     \* ParseQuery's local variable semi
  stmts     \* ParseQuery's local variable statements

vars == <<input, params, shape, pc, pst, result, printed, result2, semi, stmts>>

RECURSIVE Invoke(_, _)

(***************************************************************************)
(* package tools: rune classes                                             *)
(***************************************************************************)
LowerLetters == {"a", "b", "c", "d", "e", "f", "g", "h", "i", "j", "k", "l", "m", "n", "o", "p", "q", "r", "s", "t", "u", "v", "w", "x", "y", "z"}
UpperLetters == {"A", "B", "C", "D", "E", "F", "G", "H", "I", "J", "K", "L", "M", "N", "O", "P", "Q", "R", "S", "T", "U", "V", "W", "X", "Y", "Z"}
Digits == {"0", "1", "2", "3", "4", "5", "6", "7", "8", "9"}

LowerSeq == <<"a", "b", "c", "d", "e", "f", "g", "h", "i", "j", "k", "l", "m", "n", "o", "p", "q", "r", "s", "t", "u", "v", "w", "x", "y", "z">>
UpperSeq == <<"A", "B", "C", "D", "E", "F", "G", "H", "I", "J", "K", "L", "M", "N", "O", "P", "Q", "R", "S", "T", "U", "V", "W", "X", "Y", "Z">>

\* The rune U+0000, which the reader also uses as its EOF marker.
EOF == "NUL"
NL == "\n"
CR == "\r"
TAB == "\t"

IsWhitespace(ch) == ch = " " \/ ch = TAB \/ ch = NL
IsLetter(ch) == ch \in LowerLetters \/ ch \in UpperLetters
IsDigit(ch) == ch \in Digits
IsIdentChar(ch) == IsLetter(ch) \/ IsDigit(ch) \/ ch = "_"
IsIdentFirstChar(ch) == IsLetter(ch) \/ ch = "_"

\* strings.ToLower on one rune and on a string
ToLowerRune(ch) ==
  IF ch \in UpperLetters
  THEN LowerSeq[CHOOSE i \in 1..26 : UpperSeq[i] = ch]
  ELSE ch
ToLower(str) == [i \in 1..Len(str) |-> ToLowerRune(str[i])]

(***************************************************************************)
(* package token                                                           *)
(***************************************************************************)
tokens ==
  "ILLEGAL" :> <<"I", "L", "L", "E", "G", "A", "L">> @@
  "EOF" :> <<"E", "O", "F">> @@
  "WS" :> <<"W", "S">> @@
  "IDENT" :> <<"I", "D", "E", "N", "T">> @@
  "NUMBER" :> <<"N", "U", "M", "B", "E", "R">> @@
  "DURATIONVAL" :> <<"D", "U", "R", "A", "T", "I", "O", "N", "V", "A", "L">> @@
  "STRING" :> <<"S", "T", "R", "I", "N", "G">> @@
  "BADSTRING" :> <<"B", "A", "D", "S", "T", "R", "I", "N", "G">> @@
  "BADESCAPE" :> <<"B", "A", "D", "E", "S", "C", "A", "P", "E">> @@
  "TRUE" :> <<"T", "R", "U", "E">> @@
  "FALSE" :> <<"F", "A", "L", "S", "E">> @@
  "REGEX" :> <<"R", "E", "G", "E", "X">> @@
  "ADD" :> <<"+">> @@
  "SUB" :> <<"-">> @@
  "MUL" :> <<"*">> @@
  "DIV" :> <<"/">> @@
  "MOD" :> <<"%">> @@
  "BITAND" :> <<"&">> @@
  "BITOR" :> <<"|">> @@
  "BITXOR" :> <<"^">> @@
  "AND" :> <<"A", "N", "D">> @@
  "OR" :> <<"O", "R">> @@
  "EQ" :> <<"=">> @@
  "NEQ" :> <<"!", "=">> @@
  "EQREGEX" :> <<"=", "~">> @@
  "NEQREGEX" :> <<"!", "~">> @@
  "LT" :> <<"<">> @@
  "LTE" :> <<"<", "=">> @@
  "GT" :> <<">">> @@
  "GTE" :> <<">", "=">> @@
  "LPAREN" :> <<"(">> @@
  "RPAREN" :> <<")">> @@
  "COMMA" :> <<",">> @@
  "COLON" :> <<":">> @@
  "DOUBLECOLON" :> <<":", ":">> @@
  "SEMICOLON" :> <<";">> @@
  "DOT" :> <<".">> @@
  "ALL" :> <<"A", "L", "L">> @@
  "ANALYZE" :> <<"A", "N", "A", "L", "Y", "Z", "E">> @@
  "ANY" :> <<"A", "N", "Y">> @@
  "AS" :> <<"A", "S">> @@
  "ASC" :> <<"A", "S", "C">> @@
  "BEGIN" :> <<"B", "E", "G", "I", "N">> @@
  "BY" :> <<"B", "Y">> @@
  "DESC" :> <<"D", "E", "S", "C">> @@
  "DISTINCT" :> <<"D", "I", "S", "T", "I", "N", "C", "T">> @@
  "EXPLAIN" :> <<"E", "X", "P", "L", "A", "I", "N">> @@
  "FIELD" :> <<"F", "I", "E", "L", "D">> @@
  "FROM" :> <<"F", "R", "O", "M">> @@
  "GROUP" :> <<"G", "R", "O", "U", "P">> @@
  "IN" :> <<"I", "N">> @@
  "INF" :> <<"I", "N", "F">> @@
  "INSERT" :> <<"I", "N", "S", "E", "R", "T">> @@
  "INTO" :> <<"I", "N", "T", "O">> @@
  "LIMIT" :> <<"L", "I", "M", "I", "T">> @@
  "METRIC" :> <<"M", "E", "T", "R", "I", "C">> @@
  "OFFSET" :> <<"O", "F", "F", "S", "E", "T">> @@
  "ORDER" :> <<"O", "R", "D", "E", "R">> @@
  "SELECT" :> <<"S", "E", "L", "E", "C", "T">> @@
  "SLIMIT" :> <<"S", "L", "I", "M", "I", "T">> @@
  "SOFFSET" :> <<"S", "O", "F", "F", "S", "E", "T">> @@
  "TAG" :> <<"T", "A", "G">> @@
  "WHERE" :> <<"W", "H", "E", "R", "E">>

\* Token.String: the tokens array has no entry for BOUNDPARAM, INTEGER and
\* BADREGEX, so these print as the empty string.
TokenString(tok) == IF tok \in DOMAIN tokens THEN tokens[tok] ELSE <<>>

OperatorTokens ==
  {"ADD", "SUB", "MUL", "DIV", "MOD", "BITAND", "BITOR", "BITXOR", "AND", "OR",
   "EQ", "NEQ", "EQREGEX", "NEQREGEX", "LT", "LTE", "GT", "GTE"}

KeywordTokens ==
  {"ALL", "ANALYZE", "ANY", "AS", "ASC", "BEGIN", "BY", "DESC", "DISTINCT",
   "EXPLAIN", "FIELD", "FROM", "GROUP", "IN", "INF", "INSERT", "INTO", "LIMIT",
   "METRIC", "OFFSET", "ORDER", "SELECT", "SLIMIT", "SOFFSET", "TAG", "WHERE"}

\* The map built by init(): lower-cased spelling -> token.
keywords ==
  [t \in KeywordTokens \cup {"AND", "OR", "TRUE", "FALSE"} |-> Invoke("ToLower", <<tokens[t]>>)]

Precedence(tok) ==
  CASE tok = "OR" -> 1
    [] tok = "AND" -> 2
    [] tok \in {"EQ", "NEQ", "EQREGEX", "NEQREGEX", "LT", "LTE", "GT", "GTE"} -> 3
    [] tok \in {"ADD", "SUB", "BITOR", "BITXOR"} -> 4
    [] tok \in {"MUL", "DIV", "MOD", "BITAND"} -> 5
    [] OTHER -> 0

IsOperator(tok) == tok \in OperatorTokens
IsRegexOp(tok) == tok = "EQREGEX" \/ tok = "NEQREGEX"

Lookup(ident) ==
  LET l == Invoke("ToLower", <<ident>>)
  IN IF \E t \in DOMAIN keywords : keywords[t] = l
     THEN CHOOSE t \in DOMAIN keywords : keywords[t] = l
     ELSE "IDENT"

Pos(line, char) == [Line |-> line, Char |-> char]

(***************************************************************************)
(* package scanner: the rune reader                                        *)
(*                                                                         *)
(* The parser state s holds: in (the text), k (runes the underlying        *)
(* bufio.Reader has delivered), the reader's ring (ri, rn, rbuf, rpos,     *)
(* eof), the bufScanner's ring (si, sn, sbuf) and the parser's params.     *)
(* Ring slots are indexed 1..3 here (0..2 in Go).  rnMax and snMax record  *)
(* the largest values reader.n and bufScanner.n have taken since           *)
(* construction, so that a property can speak of every moment of a parse.  *)
(***************************************************************************)
ReaderRingLen == 3
ScanRingLen == 3

MICRO == "mu"  \* the rune U+00B5

NewParser(text, ps) ==
  [in |-> text, k |-> 0,
   ri |-> 0, rn |-> 0, rpos |-> Pos(0, 0), eof |-> FALSE,
   rbuf |-> [j \in 1..ReaderRingLen |-> [ch |-> EOF, pos |-> Pos(0, 0)]],
   si |-> 0, sn |-> 0,
   rnMax |-> 0, snMax |-> 0,
   sbuf |-> [j \in 1..ScanRingLen |-> [pos |-> Pos(0, 0), tok |-> "ILLEGAL", lit |-> <<>>]],
   params |-> ps]

\* curr that returns the newest rune whatever was pushed back
currNewest(s) == s.rbuf[s.ri + 1]

\* reader.curr
curr(s) == s.rbuf[((s.ri - s.rn + ReaderRingLen) % ReaderRingLen) + 1]

\* reader.unread
unread(s) == [s EXCEPT !.rn = @ + 1, !.rnMax = IF s.rn + 1 > @ THEN s.rn + 1 ELSE @]

\* read that leaves the "\n" after a "\r" in the text
readKeepLF(s) ==
  IF s.rn > 0
  THEN LET s1 == [s EXCEPT !.rn = @ - 1]
       IN [s |-> s1, ch |-> curr(s1).ch, pos |-> curr(s1).pos]
  ELSE LET err == s.k >= Len(s.in)
           c0 == IF err THEN EOF ELSE s.in[s.k + 1]
           k1 == IF err THEN s.k ELSE s.k + 1
           isCR == ~err /\ c0 = CR
           \* after '\r' a following '\n' is swallowed, any other rune is unread
           k2 == k1
           ch == IF isCR THEN NL ELSE c0
           i1 == (s.ri + 1) % ReaderRingLen
           pos1 == IF ch = NL THEN Pos(s.rpos.Line + 1, 0)
                   ELSE IF ~s.eof THEN Pos(s.rpos.Line, s.rpos.Char + 1)
                   ELSE s.rpos
           s1 == [s EXCEPT !.k = k2, !.ri = i1,
                           !.rbuf[i1 + 1] = [ch |-> ch, pos |-> s.rpos],
                           !.rpos = pos1,
                           !.eof = (s.eof \/ ch = EOF)]
       IN [s |-> s1, ch |-> ch, pos |-> s.rpos]

\* reader.read: returns the state after the read, the rune and its position
read(s) ==
  IF s.rn > 0
  THEN LET s1 == [s EXCEPT !.rn = @ - 1]
       IN [s |-> s1, ch |-> curr(s1).ch, pos |-> curr(s1).pos]
  ELSE LET err == s.k >= Len(s.in)
           c0 == IF err THEN EOF ELSE s.in[s.k + 1]
           k1 == IF err THEN s.k ELSE s.k + 1
           isCR == ~err /\ c0 = CR
           \* after '\r' a following '\n' is swallowed, any other rune is unread
           k2 == IF isCR /\ k1 < Len(s.in) /\ s.in[k1 + 1] = NL THEN k1 + 1 ELSE k1
           ch == IF isCR THEN NL ELSE c0
           i1 == (s.ri + 1) % ReaderRingLen
           pos1 == IF ch = NL THEN Pos(s.rpos.Line + 1, 0)
                   ELSE IF ~s.eof THEN Pos(s.rpos.Line, s.rpos.Char + 1)
                   ELSE s.rpos
           s1 == [s EXCEPT !.k = k2, !.ri = i1,
                           !.rbuf[i1 + 1] = [ch |-> ch, pos |-> s.rpos],
                           !.rpos = pos1,
                           !.eof = (s.eof \/ ch = EOF)]
       IN [s |-> s1, ch |-> ch, pos |-> s.rpos]

\* reader.ReadRune: err is io.EOF exactly when the rune is the EOF marker
ReadRune(s) == LET r == Invoke("read", <<s>>) IN [s |-> r.s, ch |-> r.ch, err |-> (r.ch = EOF)]

\* reader.UnreadRune
UnreadRune(s) == unread(s)

(***************************************************************************)
(* package scanner: ScanDelimited, ScanString, ScanBareIdent               *)
(***************************************************************************)
RECURSIVE ScanDelimitedLoop(_, _, _, _, _)
ScanDelimitedLoop(s, end, escapes, escapesPassThru, buf) ==
  LET r0 == Invoke("ReadRune", <<s>>)
      ch0 == r0.ch
  IN IF ch0 = end THEN [s |-> r0.s, b |-> buf, err |-> "nil"]
     ELSE IF r0.err THEN [s |-> r0.s, b |-> buf, err |-> "EOF"]
     ELSE IF ch0 = NL THEN [s |-> r0.s, b |-> <<>>, err |-> "delimited text contains new line"]
     ELSE IF ch0 = "\\"
       THEN LET r1 == Invoke("ReadRune", <<r0.s>>)
                ch1 == r1.ch
            IN IF r1.err THEN [s |-> r1.s, b |-> <<>>, err |-> "EOF"]
               ELSE IF ch1 \notin DOMAIN escapes
                 THEN IF escapesPassThru
                      THEN ScanDelimitedLoop(Invoke("UnreadRune", <<r1.s>>), end, escapes,
                                             escapesPassThru, Append(buf, ch0))
                      ELSE [s |-> r1.s, b |-> <<ch0, ch1>>, err |-> "errBadEscape"]
                 ELSE ScanDelimitedLoop(r1.s, end, escapes, escapesPassThru,
                                        Append(buf, escapes[ch1]))
       ELSE ScanDelimitedLoop(r0.s, end, escapes, escapesPassThru, Append(buf, ch0))

ScanDelimited(s, start, end, escapes, escapesPassThru) ==
  LET r == Invoke("ReadRune", <<s>>)
  IN IF r.err THEN [s |-> r.s, b |-> <<>>, err |-> "EOF"]
     ELSE IF r.ch # start THEN [s |-> r.s, b |-> <<>>, err |-> "expected start"]
     ELSE Invoke("ScanDelimitedLoop", <<r.s, end, escapes, escapesPassThru, <<>>>>)

RECURSIVE ScanStringLoop(_, _, _)
ScanStringLoop(s, ending, buf) ==
  LET r0 == Invoke("ReadRune", <<s>>)
      ch0 == r0.ch
  IN IF ch0 = ending THEN [s |-> r0.s, str |-> buf, err |-> "nil"]
     ELSE IF r0.err \/ ch0 = NL THEN [s |-> r0.s, str |-> buf, err |-> "errBadString"]
     ELSE IF ch0 = "\\"
       THEN LET r1 == Invoke("ReadRune", <<r0.s>>)
                ch1 == r1.ch
            IN IF ch1 = "n" THEN ScanStringLoop(r1.s, ending, Append(buf, NL))
               ELSE IF ch1 = "\\" THEN ScanStringLoop(r1.s, ending, Append(buf, "\\"))
               ELSE IF ch1 = "\"" THEN ScanStringLoop(r1.s, ending, Append(buf, "\""))
               ELSE IF ch1 = "'" THEN ScanStringLoop(r1.s, ending, Append(buf, "'"))
               ELSE [s |-> r1.s, str |-> <<ch0, ch1>>, err |-> "errBadEscape"]
       ELSE ScanStringLoop(r0.s, ending, Append(buf, ch0))

ScanString(s) ==
  LET r == Invoke("ReadRune", <<s>>)
  IN IF r.err THEN [s |-> r.s, str |-> <<>>, err |-> "errBadString"]
     ELSE Invoke("ScanStringLoop", <<r.s, r.ch, <<>>>>)

RECURSIVE ScanBareIdentLoop(_, _)
ScanBareIdentLoop(s, buf) ==
  LET r == Invoke("ReadRune", <<s>>)
  IN IF r.err THEN [s |-> r.s, str |-> buf]
     ELSE IF ~IsIdentChar(r.ch) THEN [s |-> Invoke("UnreadRune", <<r.s>>), str |-> buf]
     ELSE ScanBareIdentLoop(r.s, Append(buf, r.ch))

ScanBareIdent(s) == Invoke("ScanBareIdentLoop", <<s, <<>>>>)

(***************************************************************************)
(* package scanner: scanner                                                *)
(* Every scan operator returns [s, pos, tok, lit].                         *)
(***************************************************************************)
Tok(s, pos, tok, lit) == [s |-> s, pos |-> pos, tok |-> tok, lit |-> lit]

RECURSIVE scanWhitespaceLoop(_, _, _)
scanWhitespaceLoop(s, pos, buf) ==
  LET r == Invoke("read", <<s>>)
  IN IF r.ch = EOF THEN Tok(r.s, pos, "WS", buf)
     ELSE IF ~IsWhitespace(r.ch) THEN Tok(unread(r.s), pos, "WS", buf)
     ELSE scanWhitespaceLoop(r.s, pos, Append(buf, r.ch))

scanWhitespace(s) == Invoke("scanWhitespaceLoop", <<s, curr(s).pos, <<curr(s).ch>>>>)

RECURSIVE skipUntilNewline(_)
skipUntilNewline(s) ==
  LET r == Invoke("read", <<s>>)
  IN IF r.ch = NL \/ r.ch = EOF THEN r.s ELSE skipUntilNewline(r.s)

\* the inner state "star" of skipUntilEndComment
RECURSIVE skipStar(_)
RECURSIVE skipUntilEndComment(_)
skipStar(s) ==
  LET r2 == Invoke("read", <<s>>)
  IN IF r2.ch = "/" THEN [s |-> r2.s, err |-> FALSE]
     ELSE IF r2.ch = "*" THEN skipStar(r2.s)
     ELSE IF r2.ch = EOF THEN [s |-> r2.s, err |-> TRUE]
     ELSE Invoke("skipUntilEndComment", <<r2.s>>)

skipUntilEndComment(s) ==
  LET r1 == Invoke("read", <<s>>)
  IN IF r1.ch = "*" THEN Invoke("skipStar", <<r1.s>>)
     ELSE IF r1.ch = EOF THEN [s |-> r1.s, err |-> TRUE]
     ELSE skipUntilEndComment(r1.s)

scanString(s) ==
  LET s1 == unread(s)
      pos == curr(s1).pos
      r == Invoke("ScanString", <<s1>>)
  IN IF r.err = "errBadString" THEN Tok(r.s, pos, "BADSTRING", r.str)
     ELSE IF r.err = "errBadEscape" THEN Tok(r.s, curr(r.s).pos, "BADESCAPE", r.str)
     ELSE Tok(r.s, pos, "STRING", r.str)

RECURSIVE scanIdentLoop(_, _, _, _)
scanIdentLoop(s, pos, lookup, buf) ==
  LET r == Invoke("read", <<s>>)
      done(s1) == IF lookup /\ Invoke("Lookup", <<buf>>) # "IDENT"
                  THEN Tok(s1, pos, Invoke("Lookup", <<buf>>), <<>>)
                  ELSE Tok(s1, pos, "IDENT", buf)
  IN IF r.ch = EOF THEN done(r.s)
     ELSE IF r.ch = "\""
       THEN LET t0 == Invoke("scanString", <<r.s>>)
            IN IF t0.tok = "BADSTRING" \/ t0.tok = "BADESCAPE" THEN t0
               ELSE Tok(t0.s, pos, "IDENT", t0.lit)
     ELSE IF IsIdentChar(r.ch)
       THEN LET b == Invoke("ScanBareIdent", <<unread(r.s)>>)
            IN scanIdentLoop(b.s, pos, lookup, buf \o b.str)
     ELSE done(unread(r.s))

scanIdent(s, lookup) ==
  LET r == Invoke("read", <<s>>)
  IN Invoke("scanIdentLoop", <<unread(r.s), r.pos, lookup, <<>>>>)

\* scanner.ScanRegex
scanner_ScanRegex(s) ==
  LET pos == curr(s).pos
      r == Invoke("ScanDelimited", <<s, "/", "/", [c \in {"/"} |-> "/"], TRUE>>)
  IN IF r.err = "errBadEscape" THEN Tok(r.s, curr(r.s).pos, "BADESCAPE", <<>>)
     ELSE IF r.err # "nil" THEN Tok(r.s, pos, "BADREGEX", <<>>)
     ELSE Tok(r.s, pos, "REGEX", r.b)

RECURSIVE scanDigitsLoop(_, _)
scanDigitsLoop(s, buf) ==
  LET r == Invoke("read", <<s>>)
  IN IF ~IsDigit(r.ch) THEN [s |-> unread(r.s), str |-> buf]
     ELSE scanDigitsLoop(r.s, Append(buf, r.ch))

scanDigits(s) == Invoke("scanDigitsLoop", <<s, <<>>>>)

\* the two loops that extend a duration literal
RECURSIVE scanDurationLetters(_, _)
scanDurationLetters(s, buf) ==
  LET r == Invoke("read", <<s>>)
  IN IF ~IsLetter(r.ch) /\ r.ch # MICRO THEN [s |-> unread(r.s), str |-> buf]
     ELSE scanDurationLetters(r.s, Append(buf, r.ch))

RECURSIVE scanDurationRest(_, _)
scanDurationRest(s, buf) ==
  LET r == Invoke("read", <<s>>)
  IN IF IsLetter(r.ch) \/ r.ch = MICRO \/ IsDigit(r.ch)
     THEN scanDurationRest(r.s, Append(buf, r.ch))
     ELSE [s |-> unread(r.s), str |-> buf]

scanNumber(s) ==
  LET c == curr(s)
      pos == c.pos
      r1 == Invoke("read", <<s>>)
      badDot == c.ch = "." /\ ~IsDigit(r1.ch)
      \* '.': peek one rune, then unread it and the full stop; else unread the digit
      s0 == IF c.ch = "." THEN unread(unread(r1.s)) ELSE unread(s)
      d1 == Invoke("scanDigits", <<s0>>)
      rDot == Invoke("read", <<d1.s>>)
      isDecimal == rDot.ch = "."
      rFrac == Invoke("read", <<rDot.s>>)
      d2 == Invoke("scanDigits", <<rFrac.s>>)
      afterFrac ==
        IF isDecimal
        THEN IF IsDigit(rFrac.ch)
             THEN [s |-> d2.s, str |-> d1.str \o <<rDot.ch, rFrac.ch>> \o d2.str]
             ELSE [s |-> unread(rFrac.s), str |-> d1.str]
        ELSE [s |-> unread(rDot.s), str |-> d1.str]
      rL == Invoke("read", <<afterFrac.s>>)
      l1 == Invoke("scanDurationLetters", <<rL.s, Append(afterFrac.str, rL.ch)>>)
      l2 == Invoke("scanDurationRest", <<l1.s, l1.str>>)
  IN IF badDot THEN Tok(unread(r1.s), pos, "ILLEGAL", <<".">>)
     ELSE IF isDecimal THEN Tok(afterFrac.s, pos, "NUMBER", afterFrac.str)
     ELSE IF IsLetter(rL.ch) \/ rL.ch = MICRO THEN Tok(l2.s, pos, "DURATIONVAL", l2.str)
     ELSE Tok(unread(rL.s), pos, "INTEGER", afterFrac.str)

\* scanner.Scan
scanner_Scan(s) ==
  LET r0 == Invoke("read", <<s>>)
      ch0 == r0.ch
      pos == r0.pos
      s0 == r0.s
      r1 == Invoke("read", <<s0>>)
      ch1 == r1.ch
      s1 == r1.s
  IN IF IsWhitespace(ch0) THEN Invoke("scanWhitespace", <<s0>>)
     ELSE IF IsLetter(ch0) \/ ch0 = "_" THEN Invoke("scanIdent", <<unread(s0), TRUE>>)
     ELSE IF IsDigit(ch0) THEN Invoke("scanNumber", <<s0>>)
     ELSE CASE ch0 = EOF -> Tok(s0, pos, "EOF", <<>>)
            [] ch0 = "\"" -> Invoke("scanIdent", <<unread(s0), TRUE>>)
            [] ch0 = "'" -> Invoke("scanString", <<s0>>)
            [] ch0 = "." -> IF IsDigit(ch1) THEN Invoke("scanNumber", <<unread(s1)>>)
                            ELSE Tok(unread(s1), pos, "DOT", <<>>)
            [] ch0 = "$" -> LET t == Invoke("scanIdent", <<s0, FALSE>>)
                            IN IF t.tok # "IDENT" THEN Tok(t.s, pos, t.tok, <<"$">> \o t.lit)
                               ELSE Tok(t.s, pos, "BOUNDPARAM", <<"$">> \o t.lit)
            [] ch0 = "+" -> Tok(s0, pos, "ADD", <<>>)
            [] ch0 = "-" -> IF ch1 = "-" THEN Tok(Invoke("skipUntilNewline", <<s1>>), pos, "COMMENT", <<>>)
                            ELSE Tok(unread(s1), pos, "SUB", <<>>)
            [] ch0 = "*" -> Tok(s0, pos, "MUL", <<>>)
            [] ch0 = "/" -> IF ch1 = "*"
                            THEN LET e == Invoke("skipUntilEndComment", <<s1>>)
                                 IN IF e.err THEN Tok(e.s, pos, "ILLEGAL", <<>>)
                                    ELSE Tok(e.s, pos, "COMMENT", <<>>)
                            ELSE Tok(unread(s1), pos, "DIV", <<>>)
            [] ch0 = "%" -> Tok(s0, pos, "MOD", <<>>)
            [] ch0 = "&" -> Tok(s0, pos, "BITAND", <<>>)
            [] ch0 = "|" -> Tok(s0, pos, "BITOR", <<>>)
            [] ch0 = "^" -> Tok(s0, pos, "BITXOR", <<>>)
            [] ch0 = "=" -> IF ch1 = "~" THEN Tok(s1, pos, "EQREGEX", <<>>)
                            ELSE Tok(unread(s1), pos, "EQ", <<>>)
            [] ch0 = "!" -> IF ch1 = "=" THEN Tok(s1, pos, "NEQ", <<>>)
                            ELSE IF ch1 = "~" THEN Tok(s1, pos, "NEQREGEX", <<>>)
                            ELSE Tok(unread(s1), pos, "ILLEGAL", <<ch0>>)
            [] ch0 = ">" -> IF ch1 = "=" THEN Tok(s1, pos, "GTE", <<>>)
                            ELSE Tok(unread(s1), pos, "GT", <<>>)
            [] ch0 = "<" -> IF ch1 = "=" THEN Tok(s1, pos, "LTE", <<>>)
                            ELSE IF ch1 = ">" THEN Tok(s1, pos, "NEQ", <<>>)
                            ELSE Tok(unread(s1), pos, "LT", <<>>)
            [] ch0 = "(" -> Tok(s0, pos, "LPAREN", <<>>)
            [] ch0 = ")" -> Tok(s0, pos, "RPAREN", <<>>)
            [] ch0 = "," -> Tok(s0, pos, "COMMA", <<>>)
            [] ch0 = ";" -> Tok(s0, pos, "SEMICOLON", <<>>)
            [] ch0 = ":" -> IF ch1 = ":" THEN Tok(s1, pos, "DOUBLECOLON", <<>>)
                            ELSE Tok(unread(s1), pos, "COLON", <<>>)
            [] OTHER -> Tok(s0, pos, "ILLEGAL", <<ch0>>)

(***************************************************************************)
(* package scanner: bufScanner                                             *)
(***************************************************************************)
\* curr that returns the newest token whatever was pushed back
bufScanner_currNewest(s) ==
  LET b == s.sbuf[s.si + 1]
  IN Tok(s, b.pos, b.tok, b.lit)

\* bufScanner.curr
bufScanner_curr(s) ==
  LET b == s.sbuf[((s.si - s.sn + ScanRingLen) % ScanRingLen) + 1]
  IN Tok(s, b.pos, b.tok, b.lit)

\* bufScanner.ScanFunc; scan is "Scan" or "ScanRegex"
ScanFunc(s, scan) ==
  IF s.sn > 0
  THEN bufScanner_curr([s EXCEPT !.sn = @ - 1])
  ELSE LET i1 == (s.si + 1) % ScanRingLen
           t == IF scan = "ScanRegex"
                THEN Invoke("scanner_ScanRegex", <<[s EXCEPT !.si = i1]>>)
                ELSE Invoke("scanner_Scan", <<[s EXCEPT !.si = i1]>>)
       IN bufScanner_curr([t.s EXCEPT !.sbuf[i1 + 1] =
                             [pos |-> t.pos, tok |-> t.tok, lit |-> t.lit]])

bufScanner_Scan(s) == Invoke("ScanFunc", <<s, "Scan">>)
bufScanner_ScanRegex(s) == Invoke("ScanFunc", <<s, "ScanRegex">>)

\* bufScanner.Peek: reads from the reader, whatever the token buffer holds
Peek(s) ==
  LET r == Invoke("ReadRune", <<s>>)
  IN IF r.ch # EOF THEN [s |-> Invoke("UnreadRune", <<r.s>>), ch |-> r.ch]
     ELSE [s |-> r.s, ch |-> r.ch]

\* an Unscan that pushes two tokens back
UnscanTwice(s) == [s EXCEPT !.sn = @ + 2, !.snMax = IF s.sn + 2 > @ THEN s.sn + 2 ELSE @]

\* bufScanner.Unscan
Unscan(s) == [s EXCEPT !.sn = @ + 1, !.snMax = IF s.sn + 1 > @ THEN s.sn + 1 ELSE @]

(***************************************************************************)
(* Integers of the Go program.  TLC's integers are 32 bits wide, so an     *)
(* int64/uint64 is kept as a sign and a decimal magnitude (digits, most    *)
(* significant first, no leading zero), which is also what strconv reads   *)
(* and prints.                                                             *)
(***************************************************************************)
DigitSeq == <<"0", "1", "2", "3", "4", "5", "6", "7", "8", "9">>
DigitVal(c) == (CHOOSE i \in 1..10 : DigitSeq[i] = c) - 1
DigitChar(n) == DigitSeq[n + 1]

\* strip leading zeros
DNorm(ds) ==
  LET nz == {i \in 1..Len(ds) : ds[i] # "0"}
  IN IF nz = {} THEN <<"0">>
     ELSE SubSeq(ds, CHOOSE i \in nz : \A j \in nz : i <= j, Len(ds))

\* a < b for normalized magnitudes
DLess(a, b) ==
  \/ Len(a) < Len(b)
  \/ /\ Len(a) = Len(b)
     /\ \E i \in 1..Len(a) : /\ DigitVal(a[i]) < DigitVal(b[i])
                             /\ \A j \in 1..(i - 1) : a[j] = b[j]
DLeq(a, b) == a = b \/ DLess(a, b)

MaxInt64 ==
  <<"9", "2", "2", "3", "3", "7", "2", "0", "3", "6", "8", "5", "4", "7", "7", "5", "8", "0", "7">>
\* math.MaxInt64 + 1, the magnitude of math.MinInt64
MaxInt64Plus1 ==
  <<"9", "2", "2", "3", "3", "7", "2", "0", "3", "6", "8", "5", "4", "7", "7", "5", "8", "0", "8">>
MaxUint64 ==
  <<"1", "8", "4", "4", "6", "7", "4", "4", "0", "7", "3", "7", "0", "9", "5", "5", "1", "6", "1", "5">>

Int64(neg, mag) == [neg |-> neg /\ mag # <<"0">>, mag |-> mag]
IntZero == Int64(FALSE, <<"0">>)
IntOne == Int64(FALSE, <<"1">>)
MinInt64 == Int64(TRUE, MaxInt64Plus1)

IsDigits(str) == str # <<>> /\ \A i \in 1..Len(str) : IsDigit(str[i])

\* strconv.ParseInt(lit, 10, 64): on a range error the value is clamped
ParseInt(lit) ==
  LET signed == lit # <<>> /\ (lit[1] = "-" \/ lit[1] = "+")
      neg == lit # <<>> /\ lit[1] = "-"
      body == IF signed THEN Tail(lit) ELSE lit
      mag == DNorm(body)
      lim == IF neg THEN MaxInt64Plus1 ELSE MaxInt64
  IN IF ~IsDigits(body) THEN [err |-> "syntax", val |-> IntZero]
     ELSE IF DLess(lim, mag) THEN [err |-> "range", val |-> Int64(neg, lim)]
     ELSE [err |-> "nil", val |-> Int64(neg, mag)]

\* strconv.ParseUint(lit, 10, 64)
ParseUint(lit) ==
  IF ~IsDigits(lit) THEN [err |-> "syntax", val |-> <<"0">>]
  ELSE IF DLess(MaxUint64, DNorm(lit)) THEN [err |-> "range", val |-> MaxUint64]
  ELSE [err |-> "nil", val |-> DNorm(lit)]

\* int64 multiplication by +1 or -1, as lit.Val *= int64(mul): two's
\* complement, so -MinInt64 wraps to MinInt64
MulSign(v, mul) ==
  IF mul = 1 THEN v
  ELSE IF v = MinInt64 THEN MinInt64
  ELSE Int64(~v.neg, v.mag)

\* fmt %d / strconv.FormatInt
FormatInt(v) == IF v.neg THEN <<"-">> \o v.mag ELSE v.mag

(***************************************************************************)
(* float64 values written in plain decimal notation: sign, integer digits  *)
(* and fraction digits (no trailing zero).  Enough for the literals the    *)
(* scanner can spell with at most three fraction digits.                   *)
(***************************************************************************)
StripTrailingZeros(ds) ==
  LET nz == {i \in 1..Len(ds) : ds[i] # "0"}
  IN IF nz = {} THEN <<>>
     ELSE SubSeq(ds, 1, CHOOSE i \in nz : \A j \in nz : j <= i)

Float(neg, ip, fp) ==
  LET i == DNorm(IF ip = <<>> THEN <<"0">> ELSE ip)
      f == StripTrailingZeros(fp)
  IN [neg |-> neg /\ ~(i = <<"0">> /\ f = <<>>), ip |-> i, fp |-> f]

IndexOf(str, c) == IF \E i \in 1..Len(str) : str[i] = c
                   THEN CHOOSE i \in 1..Len(str) : str[i] = c /\ \A j \in 1..(i - 1) : str[j] # c
                   ELSE 0

\* strconv.ParseFloat(lit, 64) on [sign] digits [. digits]
ParseFloat(lit) ==
  LET signed == lit # <<>> /\ (lit[1] = "-" \/ lit[1] = "+")
      neg == lit # <<>> /\ lit[1] = "-"
      body == IF signed THEN Tail(lit) ELSE lit
      dot == IndexOf(body, ".")
      ip == IF dot = 0 THEN body ELSE SubSeq(body, 1, dot - 1)
      fp == IF dot = 0 THEN <<>> ELSE SubSeq(body, dot + 1, Len(body))
      okDigits(d) == \A i \in 1..Len(d) : IsDigit(d[i])
  IN IF ~okDigits(ip) \/ ~okDigits(fp) \/ (ip = <<>> /\ fp = <<>>)
     THEN [err |-> "syntax", val |-> Float(FALSE, <<>>, <<>>)]
     ELSE [err |-> "nil", val |-> Float(neg, ip, fp)]

\* strconv.FormatFloat(v, 'f', 3, 64) for values with at most three fraction digits
FormatFloat3(v) ==
  LET pad == [i \in 1..(3 - Len(v.fp)) |-> "0"]
  IN (IF v.neg THEN <<"-">> ELSE <<>>) \o v.ip \o <<".">> \o v.fp \o pad

\* strconv.FormatFloat(v, 'f', -1, 64)
FormatFloatShortest(v) ==
  (IF v.neg THEN <<"-">> ELSE <<>>) \o v.ip \o (IF v.fp = <<>> THEN <<>> ELSE <<".">> \o v.fp)

(***************************************************************************)
(* package tools: quoting                                                  *)
(***************************************************************************)
RECURSIVE Replace(_, _)
\* strings.NewReplacer(...).Replace: pairs maps one character to its replacement
Replace(str, pairs) ==
  IF str = <<>> THEN <<>>
  ELSE (IF Head(str) \in DOMAIN pairs THEN pairs[Head(str)] ELSE <<Head(str)>>)
       \o Replace(Tail(str), pairs)

qsReplacer == (NL :> <<"\\", "n">>) @@ ("\\" :> <<"\\", "\\">>) @@ ("'" :> <<"\\", "'">>)
qiReplacer == (NL :> <<"\\", "n">>) @@ ("\\" :> <<"\\", "\\">>) @@ ("\"" :> <<"\\", "\"">>)

QuoteString(str) == <<"'">> \o Replace(str, qsReplacer) \o <<"'">>

IdentNeedsQuotes(ident) ==
  \/ Invoke("Lookup", <<ident>>) # "IDENT"
  \/ \E i \in 1..Len(ident) : \/ i = 1 /\ ~IsIdentFirstChar(ident[i])
                              \/ i > 1 /\ ~IsIdentChar(ident[i])

RECURSIVE QuoteIdentFrom(_, _)
QuoteIdentFrom(segments, i) ==
  IF i > Len(segments) THEN <<>>
  ELSE LET segment == segments[i]
           last == Len(segments)
           needQuote == \/ Invoke("IdentNeedsQuotes", <<segment>>)
                        \/ (i < last /\ segment # <<>>)
                        \/ ((i = 1 \/ i = last) /\ segment = <<>>)
           q == IF needQuote THEN <<"\"">> ELSE <<>>
       IN q \o Replace(segment, qiReplacer) \o q
          \o (IF i < last THEN <<".">> ELSE <<>>)
          \o QuoteIdentFrom(segments, i + 1)

QuoteIdent(segments) == Invoke("QuoteIdentFrom", <<segments, 1>>)

(***************************************************************************)
(* package parser: errors and results                                      *)
(* A parse function returns [s, err, v]: the parser after the call, the    *)
(* error (NoErr for Go's nil) and the value (Nil for Go's nil).            *)
(***************************************************************************)
Nil == [kind |-> "nil"]
NoErr == [type |-> "nil"]

newParseError(found, expected, pos) ==
  [type |-> "ParseError", Message |-> <<>>, Found |-> found, Expected |-> expected, Pos |-> pos]
ParseErrorMsg(msg, pos) ==
  [type |-> "ParseError", Message |-> msg, Found |-> <<>>, Expected |-> <<>>, Pos |-> pos]
\* errors.New / fmt.Errorf
NewError(msg) == [type |-> "error", Message |-> msg]

Ok(s, v) == [s |-> s, err |-> NoErr, v |-> v]
Fail(s, e) == [s |-> s, err |-> e, v |-> Nil]

(***************************************************************************)
(* Decimal arithmetic for int64 values that do not fit TLC's integers      *)
(***************************************************************************)
\* the digit of weight 10^p
DigitAt(a, p) == IF p < Len(a) THEN DigitVal(a[Len(a) - p]) ELSE 0

RECURSIVE NatDigits(_)
NatDigits(n) == IF n < 10 THEN <<DigitChar(n)>> ELSE Append(NatDigits(n \div 10), DigitChar(n % 10))

DAdd(a, b) ==
  LET n == (IF Len(a) > Len(b) THEN Len(a) ELSE Len(b)) + 1
      sum(p) == DigitAt(a, p) + DigitAt(b, p)
      carry(p) == \E j \in 0..(p - 1) : sum(j) >= 10 /\ \A k \in (j + 1)..(p - 1) : sum(k) = 9
  IN DNorm([i \in 1..n |-> DigitChar((sum(n - i) + (IF carry(n - i) THEN 1 ELSE 0)) % 10)])

\* a - b for a >= b
DSub(a, b) ==
  LET n == Len(a)
      borrow(p) == \E j \in 0..(p - 1) : /\ DigitAt(a, j) < DigitAt(b, j)
                                          /\ \A k \in (j + 1)..(p - 1) : DigitAt(a, k) = DigitAt(b, k)
  IN DNorm([i \in 1..n |->
              DigitChar((DigitAt(a, n - i) - DigitAt(b, n - i) - (IF borrow(n - i) THEN 1 ELSE 0) + 10) % 10)])

\* a * d for one digit d
DMulDigit(a, d) ==
  LET a2 == DAdd(a, a)
      a4 == DAdd(a2, a2)
      a8 == DAdd(a4, a4)
  IN CASE d = 0 -> <<"0">>
       [] d = 1 -> a
       [] d = 2 -> a2
       [] d = 3 -> DAdd(a2, a)
       [] d = 4 -> a4
       [] d = 5 -> DAdd(a4, a)
       [] d = 6 -> DAdd(a4, a2)
       [] d = 7 -> DAdd(a4, DAdd(a2, a))
       [] d = 8 -> a8
       [] d = 9 -> DAdd(a8, a)

DShift(a, z) == DNorm(a \o [i \in 1..z |-> "0"])

\* a * m * 10^z, for m below 10000
DMulUnit(a, unit) ==
  LET part(k) == DShift(Invoke("DMulDigit", <<a, (unit.m \div (10 ^ k)) % 10>>), k + unit.z)
  IN DAdd(DAdd(part(0), part(1)), DAdd(part(2), part(3)))

RECURSIVE DReduce(_, _)
DReduce(r, M) == IF DLess(r, M) THEN r ELSE DReduce(Invoke("DSub", <<r, M>>), M)
RECURSIVE DModRec(_, _, _)
DModRec(a, M, rem) ==
  IF a = <<>> THEN rem
  ELSE DModRec(Tail(a), M, Invoke("DReduce", <<DNorm(Append(rem, Head(a))), M>>))
DMod(a, M) == IF DLess(a, M) THEN a ELSE Invoke("DModRec", <<a, M, <<"0">>>>)

RECURSIVE DDivSmallRec(_, _, _, _)
DDivSmallRec(a, k, rem, q) ==
  IF a = <<>> THEN [q |-> DNorm(q), rem |-> rem]
  ELSE LET cur == rem * 10 + DigitVal(Head(a))
       IN DDivSmallRec(Tail(a), k, cur % k, Append(q, DigitChar(cur \div k)))
DDivSmall(a, k) == Invoke("DDivSmallRec", <<a, k, 0, <<"0">>>>)

Two64 ==
  <<"1", "8", "4", "4", "6", "7", "4", "4", "0", "7", "3", "7", "0", "9", "5", "5", "1", "6", "1", "6">>

\* the int64 that a non-negative integer wraps to
Wrap64(d) ==
  LET u == Invoke("DMod", <<d, Two64>>)
  IN IF DLess(MaxInt64, u) THEN Int64(TRUE, Invoke("DSub", <<Two64, u>>)) ELSE Int64(FALSE, u)
ToUint64(v) == IF v.neg THEN Invoke("DSub", <<Two64, v.mag>>) ELSE v.mag
Add64(a, b) == Invoke("Wrap64", <<DAdd(Invoke("ToUint64", <<a>>), Invoke("ToUint64", <<b>>))>>)

(***************************************************************************)
(* time.Duration units as m * 10^z nanoseconds                             *)
(***************************************************************************)
Nanosecond == [m |-> 1, z |-> 0]
Microsecond == [m |-> 1, z |-> 3]
Millisecond == [m |-> 1, z |-> 6]
Second == [m |-> 1, z |-> 9]
Minute == [m |-> 6, z |-> 10]
Hour == [m |-> 36, z |-> 11]
Day == [m |-> 864, z |-> 11]
Week == [m |-> 6048, z |-> 11]

ErrInvalidDuration == NewError(<<"invalid duration">>)

ByteLen(str) == Len(str) + Cardinality({i \in 1..Len(str) : str[i] = MICRO})

RECURSIVE SkipDigits(_, _)
SkipDigits(a, i) == IF i <= Len(a) /\ IsDigit(a[i]) THEN SkipDigits(a, i + 1) ELSE i

RECURSIVE ParseDurationLoop(_, _, _, _, _)
\* the parsing loop; i is 1-based, d the sum so far, measure and unit the last term
ParseDurationLoop(a, i, d, measure, unit) ==
  IF i > Len(a) THEN [err |-> NoErr, d |-> d, measure |-> measure, unit |-> unit]
  ELSE LET j == Invoke("SkipDigits", <<a, i>>)
           n == Invoke("ParseInt", <<SubSeq(a, i, j - 1)>>)
           isTwo == j + 1 <= Len(a) /\ a[j + 1] = "s"
           term(u) == Invoke("Add64", <<d, Invoke("Wrap64", <<Invoke("DMulUnit", <<n.val.mag, u>>)>>)>>)
           bad == [err |-> ErrInvalidDuration, d |-> IntZero, measure |-> measure, unit |-> unit]
       IN IF j > Len(a) \/ j = i THEN bad
          ELSE IF n.err # "nil" THEN bad
          ELSE CASE a[j] = "n" ->
                      IF isTwo THEN ParseDurationLoop(a, j + 2, term(Nanosecond), n.val, <<"n", "s">>)
                      ELSE bad
                 [] a[j] \in {"u", MICRO} -> ParseDurationLoop(a, j + 1, term(Microsecond), n.val, <<a[j]>>)
                 [] a[j] = "m" ->
                      IF isTwo THEN ParseDurationLoop(a, j + 2, term(Millisecond), n.val, <<"m", "s">>)
                      ELSE ParseDurationLoop(a, j + 1, term(Minute), n.val, <<"m">>)
                 [] a[j] = "s" -> ParseDurationLoop(a, j + 1, term(Second), n.val, <<"s">>)
                 [] a[j] = "h" -> ParseDurationLoop(a, j + 1, term(Hour), n.val, <<"h">>)
                 [] a[j] = "d" -> ParseDurationLoop(a, j + 1, term(Day), n.val, <<"d">>)
                 [] a[j] = "w" -> ParseDurationLoop(a, j + 1, term(Week), n.val, <<"w">>)
                 [] OTHER -> bad

ParseDuration(str) ==
  LET isNegative == str[1] = "-"
      r == Invoke("ParseDurationLoop", <<str, IF isNegative THEN 2 ELSE 1, IntZero, IntZero, <<>>>>)
  IN IF ByteLen(str) < 2 THEN [err |-> ErrInvalidDuration, val |-> IntZero]
     ELSE IF r.err # NoErr THEN [err |-> r.err, val |-> IntZero]
     ELSE IF r.d.neg /\ ~isNegative
          THEN [err |-> NewError(<<"overflowed duration ">> \o Invoke("FormatInt", <<r.measure>>) \o r.unit
                                  \o <<": choose a smaller duration or INF">>),
                val |-> IntZero]
     ELSE [err |-> NoErr, val |-> IF isNegative THEN MulSign(r.d, -1) ELSE r.d]

\* d % unit == 0
DivisibleBy(d, unit) ==
  /\ Len(d.mag) > unit.z
  /\ \A i \in (Len(d.mag) - unit.z + 1)..Len(d.mag) : d.mag[i] = "0"
  /\ Invoke("DDivSmall", <<SubSeq(d.mag, 1, Len(d.mag) - unit.z), unit.m>>).rem = 0
\* fmt.Sprintf("%d", d / unit) when d % unit == 0
Quotient(d, unit) ==
  (IF d.neg THEN <<"-">> ELSE <<>>) \o Invoke("DDivSmall", <<SubSeq(d.mag, 1, Len(d.mag) - unit.z), unit.m>>).q

FormatDuration(d) ==
  IF d = IntZero THEN <<"0", "s">>
  ELSE IF Invoke("DivisibleBy", <<d, Week>>) THEN Invoke("Quotient", <<d, Week>>) \o <<"w">>
  ELSE IF Invoke("DivisibleBy", <<d, Day>>) THEN Invoke("Quotient", <<d, Day>>) \o <<"d">>
  ELSE IF Invoke("DivisibleBy", <<d, Hour>>) THEN Invoke("Quotient", <<d, Hour>>) \o <<"h">>
  ELSE IF Invoke("DivisibleBy", <<d, Minute>>) THEN Invoke("Quotient", <<d, Minute>>) \o <<"m">>
  ELSE IF Invoke("DivisibleBy", <<d, Second>>) THEN Invoke("Quotient", <<d, Second>>) \o <<"s">>
  ELSE IF Invoke("DivisibleBy", <<d, Millisecond>>) THEN Invoke("Quotient", <<d, Millisecond>>) \o <<"m", "s">>
  ELSE IF Invoke("DivisibleBy", <<d, Microsecond>>) THEN Invoke("Quotient", <<d, Microsecond>>) \o <<"u">>
  ELSE Invoke("FormatInt", <<d>>) \o <<"n", "s">>

(***************************************************************************)
(* package parser: params.go                                               *)
(* A raw parameter is [t, v]: t is the Go type the caller passed           *)
(* ("float64", "int64", "string", "bool", "map", or another type name),    *)
(* and for a map v = [k, t, v], its single entry.                          *)
(***************************************************************************)
Value(kind, val) == [kind |-> kind, val |-> val]

bindObjectValue(m) ==
  CASE m.k \in {<<"i", "d", "e", "n", "t">>, <<"i", "d", "e", "n", "t", "i", "f", "i", "e", "r">>} ->
         IF m.t = "string" THEN Value("Identifier", m.v)
         ELSE Value("ErrorValue", <<"identifier must be a string value">>)
    [] m.k = <<"r", "e", "g", "e", "x">> ->
         IF m.t = "string" THEN Value("RegexValue", m.v)
         ELSE Value("ErrorValue", <<"regex literal must be a string value">>)
    [] m.k = <<"s", "t", "r", "i", "n", "g">> ->
         IF m.t = "string" THEN Value("StringValue", m.v)
         ELSE Value("ErrorValue", <<"string literal must be a string value">>)
    [] m.k \in {<<"f", "l", "o", "a", "t">>, <<"n", "u", "m", "b", "e", "r">>} ->
         IF m.t = "float64" THEN Value("NumberValue", m.v)
         ELSE IF m.t = "int64" THEN Value("NumberValue", Float(m.v.neg, m.v.mag, <<>>))
         ELSE Value("ErrorValue", <<"number literal must be a float value">>)
    [] m.k \in {<<"i", "n", "t">>, <<"i", "n", "t", "e", "g", "e", "r">>} ->
         IF m.t = "int64" THEN Value("IntegerValue", m.v)
         ELSE Value("ErrorValue", <<"integer literal must be an integer value">>)
    [] m.k = <<"d", "u", "r", "a", "t", "i", "o", "n">> ->
         IF m.t = "string" THEN Value("DurationValue", m.v)
         ELSE IF m.t = "int64" THEN Value("DurationValue", Invoke("FormatDuration", <<m.v>>))
         ELSE Value("ErrorValue", <<"duration literal must be a string or integer value">>)
    [] OTHER -> Value("ErrorValue", <<"unknown bind object type: ">> \o m.k)

BindValue(v) ==
  CASE v.t = "float64" -> Value("NumberValue", v.v)
    [] v.t = "int64" -> Value("IntegerValue", v.v)
    [] v.t = "string" -> Value("StringValue", v.v)
    [] v.t = "bool" -> Value("BooleanValue", v.v)
    [] v.t = "map" -> Invoke("bindObjectValue", <<v.v>>)
    [] OTHER -> Value("ErrorValue", <<"unable to bind parameter with type ", v.t>>)

\* Value.TokenType
TokenType(v) ==
  CASE v.kind = "Identifier" -> "IDENT"
    [] v.kind = "StringValue" -> "STRING"
    [] v.kind = "RegexValue" -> "REGEX"
    [] v.kind = "NumberValue" -> "NUMBER"
    [] v.kind = "IntegerValue" -> "INTEGER"
    [] v.kind = "BooleanValue" -> IF v.val THEN "TRUE" ELSE "FALSE"
    [] v.kind = "DurationValue" -> "DURATIONVAL"
    [] v.kind = "ErrorValue" -> "BOUNDPARAM"

\* Value.Value
ValueString(v) ==
  CASE v.kind = "NumberValue" -> Invoke("FormatFloatShortest", <<v.val>>)
    [] v.kind = "IntegerValue" -> Invoke("FormatInt", <<v.val>>)
    [] v.kind = "BooleanValue" -> <<>>
    [] OTHER -> v.val

\* Parser.SetParams
SetParams(raw) == [name \in DOMAIN raw |-> Invoke("BindValue", <<raw[name]>>)]

tokstr(tok, lit) == IF lit # <<>> THEN lit ELSE TokenString(tok)

TrimPrefix(str, c) == IF str # <<>> /\ Head(str) = c THEN Tail(str) ELSE str

\* Parser.scan: the scanner's token with bound parameters substituted
scan(s) ==
  LET t == Invoke("bufScanner_Scan", <<s>>)
      k == TrimPrefix(t.lit, "$")
  IN IF t.tok = "BOUNDPARAM" /\ Len(k) # 0 /\ k \in DOMAIN t.s.params
     THEN [t EXCEPT !.tok = Invoke("TokenType", <<t.s.params[k]>>), !.lit = Invoke("ValueString", <<t.s.params[k]>>)]
     ELSE t

RECURSIVE ScanIgnoreWhitespace(_)
ScanIgnoreWhitespace(s) ==
  LET t == Invoke("scan", <<s>>)
  IN IF t.tok = "WS" \/ t.tok = "COMMENT" THEN ScanIgnoreWhitespace(t.s) ELSE t

consumeWhitespace(s) ==
  LET t == Invoke("scan", <<s>>) IN IF t.tok # "WS" THEN Unscan(t.s) ELSE t.s

parseIdent(s) ==
  LET t == Invoke("ScanIgnoreWhitespace", <<s>>)
  IN IF t.tok # "IDENT" THEN Fail(t.s, newParseError(tokstr(t.tok, t.lit), <<"identifier">>, t.pos))
     ELSE Ok(t.s, t.lit)

RECURSIVE parseTokens(_, _)
parseTokens(s, toks) ==
  IF toks = <<>> THEN Ok(s, Nil)
  ELSE LET t == Invoke("ScanIgnoreWhitespace", <<s>>)
       IN IF t.tok # Head(toks)
          THEN Fail(t.s, newParseError(tokstr(t.tok, t.lit), <<TokenString(Head(toks))>>, t.pos))
          ELSE parseTokens(t.s, Tail(toks))

RECURSIVE parseSegmentedIdentsLoopSkip(_, _)
\* the loop adding no identifier for the empty segment of a double dot
parseSegmentedIdentsLoopSkip(s, idents) ==
  LET t == Invoke("scan", <<s>>)
  IN IF t.tok # "DOT" THEN Ok(Unscan(t.s), idents)
     ELSE LET pk == Invoke("Peek", <<t.s>>)
          IN IF pk.ch = "/" \/ pk.ch = ":" THEN Ok(pk.s, idents)
             ELSE IF pk.ch = "." THEN parseSegmentedIdentsLoopSkip(pk.s, idents)
             ELSE LET id == Invoke("parseIdent", <<pk.s>>)
                  IN IF id.err # NoErr THEN id
                     ELSE parseSegmentedIdentsLoopSkip(id.s, Append(idents, id.v))

RECURSIVE parseSegmentedIdentsLoop(_, _)
parseSegmentedIdentsLoop(s, idents) ==
  LET t == Invoke("scan", <<s>>)
  IN IF t.tok # "DOT" THEN Ok(Unscan(t.s), idents)
     ELSE LET pk == Invoke("Peek", <<t.s>>)
          IN IF pk.ch = "/" \/ pk.ch = ":" THEN Ok(pk.s, idents)
             ELSE IF pk.ch = "." THEN parseSegmentedIdentsLoop(pk.s, Append(idents, <<>>))
             ELSE LET id == Invoke("parseIdent", <<pk.s>>)
                  IN IF id.err # NoErr THEN id
                     ELSE parseSegmentedIdentsLoop(id.s, Append(idents, id.v))

parseSegmentedIdents(s) ==
  LET id == Invoke("parseIdent", <<s>>)
  IN IF id.err # NoErr THEN id
     ELSE LET r == Invoke("parseSegmentedIdentsLoop", <<id.s, <<id.v>>>>)
          IN IF r.err # NoErr THEN r
             ELSE IF Len(r.v) > 3
                  THEN Fail(r.s, ParseErrorMsg(<<"too many segments in ">> \o Invoke("QuoteIdent", <<r.v>>), Pos(0, 0)))
                  ELSE r

(***************************************************************************)
(* regexp.Compile, restricted to patterns over letters, digits and the     *)
(* metacharacters . * ( ) /  : such a pattern compiles unless a            *)
(* parenthesis is unbalanced or a * has nothing to repeat.                 *)
(***************************************************************************)
RECURSIVE ParenDepthOK(_, _)
ParenDepthOK(pat, depth) ==
  IF pat = <<>> THEN depth = 0
  ELSE IF Head(pat) = "(" THEN ParenDepthOK(Tail(pat), depth + 1)
  ELSE IF Head(pat) = ")" THEN depth > 0 /\ ParenDepthOK(Tail(pat), depth - 1)
  ELSE ParenDepthOK(Tail(pat), depth)

regexpCompileOK(pat) ==
  /\ Invoke("ParenDepthOK", <<pat, 0>>)
  /\ \A i \in 1..Len(pat) : pat[i] = "*" => (i > 1 /\ pat[i - 1] \notin {"(", "*"})

RegexLiteral(pat) == [kind |-> "RegexLiteral", Val |-> pat]

parseRegex(s) ==
  LET pk1 == Invoke("Peek", <<s>>)
      s1 == IF IsWhitespace(pk1.ch) THEN Invoke("consumeWhitespace", <<pk1.s>>) ELSE pk1.s
      pk2 == Invoke("Peek", <<s1>>)
      t0 == Invoke("scan", <<pk2.s>>)
      s2 == IF pk2.ch = "$" THEN Unscan(t0.s) ELSE pk2.s
      t == Invoke("bufScanner_ScanRegex", <<s2>>)
  IN IF pk2.ch = "$" /\ t0.tok # "REGEX" THEN Ok(s2, Nil)
     ELSE IF pk2.ch # "$" /\ pk2.ch # "/" THEN Ok(s2, Nil)
     ELSE IF t.tok = "BADESCAPE" THEN Fail(t.s, ParseErrorMsg(<<"bad escape: ">> \o t.lit, t.pos))
     ELSE IF t.tok = "BADREGEX" THEN Fail(t.s, ParseErrorMsg(<<"bad regex: ">> \o t.lit, t.pos))
     ELSE IF t.tok # "REGEX" THEN Fail(t.s, newParseError(tokstr(t.tok, t.lit), <<"regex">>, t.pos))
     ELSE IF ~Invoke("regexpCompileOK", <<t.lit>>) THEN Fail(t.s, ParseErrorMsg(<<"error parsing regexp">>, t.pos))
     ELSE Ok(t.s, RegexLiteral(t.lit))

(***************************************************************************)
(* package ast: expression nodes                                           *)
(***************************************************************************)
BinaryExpr(op, lhs, rhs) == [kind |-> "BinaryExpr", Op |-> op, LHS |-> lhs, RHS |-> rhs]
Call(name, args) == [kind |-> "Call", Name |-> name, Args |-> args]
Distinct(val) == [kind |-> "Distinct", Val |-> val]
\* a parenthesized expression returned without its ParenExpr node
ParenExprBare(expr) == expr
ParenExpr(expr) == [kind |-> "ParenExpr", Expr |-> expr]
VarRef(val, type) == [kind |-> "VarRef", Val |-> val, Type |-> type]
Wildcard(type) == [kind |-> "Wildcard", Type |-> type]
StringLiteral(val) == [kind |-> "StringLiteral", Val |-> val]
NumberLiteral(val) == [kind |-> "NumberLiteral", Val |-> val]
IntegerLiteral(val) == [kind |-> "IntegerLiteral", Val |-> val]
UnsignedLiteral(val) == [kind |-> "UnsignedLiteral", Val |-> val]
BooleanLiteral(val) == [kind |-> "BooleanLiteral", Val |-> val]
DurationLiteral(val) == [kind |-> "DurationLiteral", Val |-> val]

RECURSIVE Join(_, _)
\* strings.Join
Join(strs, sep) ==
  IF strs = <<>> THEN <<>>
  ELSE IF Len(strs) = 1 THEN strs[1]
  ELSE strs[1] \o sep \o Join(Tail(strs), sep)

VarRefTypeNames ==
  (<<"f", "l", "o", "a", "t">> :> "Float")
  @@ (<<"i", "n", "t", "e", "g", "e", "r">> :> "Integer")
  @@ (<<"u", "n", "s", "i", "g", "n", "e", "d">> :> "Unsigned")
  @@ (<<"s", "t", "r", "i", "n", "g">> :> "String")
  @@ (<<"b", "o", "o", "l", "e", "a", "n">> :> "Boolean")

ParseVarRef(s) ==
  LET seg == Invoke("parseSegmentedIdents", <<s>>)
      t == Invoke("scan", <<seg.s>>)
      t2 == Invoke("scan", <<t.s>>)
      val == Join(seg.v, <<".">>)
      low == Invoke("ToLower", <<t2.lit>>)
  IN IF seg.err # NoErr THEN seg
     ELSE IF t.tok # "DOUBLECOLON" THEN Ok(Unscan(t.s), VarRef(val, "Unknown"))
     ELSE CASE t2.tok = "IDENT" ->
                 IF low \in DOMAIN VarRefTypeNames THEN Ok(t2.s, VarRef(val, VarRefTypeNames[low]))
                 ELSE Fail(t2.s, newParseError(tokstr(t2.tok, t2.lit),
                        <<"float", "integer", "unsigned", "string", "boolean", "field", "tag">>, t2.pos))
            [] t2.tok = "FIELD" -> Ok(t2.s, VarRef(val, "AnyField"))
            [] t2.tok = "TAG" -> Ok(t2.s, VarRef(val, "Tag"))
            [] OTHER -> Fail(t2.s, newParseError(tokstr(t2.tok, t2.lit),
                        <<"float", "integer", "string", "boolean", "field", "tag">>, t2.pos))

\* a run-time panic, which no caller recovers
Panic(msg) == [type |-> "panic", Message |-> msg]

RECURSIVE insertExprStrict(_, _, _)
\* the descent stopping only at a strictly higher precedence
insertExprStrict(node, op, rhs) ==
  LET r == node.RHS
  IN IF r.kind # "BinaryExpr" \/ Precedence(r.Op) > Precedence(op)
     THEN [node EXCEPT !.RHS = BinaryExpr(op, node.RHS, rhs)]
     ELSE [node EXCEPT !.RHS = insertExprStrict(r, op, rhs)]

RECURSIVE insertExpr(_, _, _)
\* the descent of ParseExpr along the right spine, from node
insertExpr(node, op, rhs) ==
  LET r == node.RHS
  IN IF r.kind # "BinaryExpr" \/ Precedence(r.Op) >= Precedence(op)
     THEN [node EXCEPT !.RHS = BinaryExpr(op, node.RHS, rhs)]
     ELSE [node EXCEPT !.RHS = insertExpr(r, op, rhs)]

RECURSIVE ParseExpr(_)
RECURSIVE ParseExprLoop(_, _)
RECURSIVE parseUnaryExpr(_)
RECURSIVE parseCall(_, _)
RECURSIVE parseCallArgs(_, _, _)

ParseExpr(s) ==
  LET first == Invoke("parseUnaryExpr", <<s>>)
  IN IF first.err # NoErr THEN first
     ELSE Invoke("ParseExprLoop", <<first.s, BinaryExpr("ILLEGAL", Nil, first.v)>>)

ParseExprLoop(s, root) ==
  LET t == Invoke("ScanIgnoreWhitespace", <<s>>)
      op == t.tok
      rhs == IF IsRegexOp(op) THEN Invoke("parseRegex", <<t.s>>) ELSE Invoke("parseUnaryExpr", <<t.s>>)
      t2 == Invoke("ScanIgnoreWhitespace", <<rhs.s>>)
  IN IF ~IsOperator(op) THEN Ok(Unscan(t.s), root.RHS)
     ELSE IF rhs.err # NoErr THEN rhs
     ELSE IF IsRegexOp(op) /\ rhs.v = Nil
          THEN Fail(t2.s, newParseError(tokstr(t2.tok, t2.lit), <<"regex">>, t2.pos))
     ELSE ParseExprLoop(rhs.s, Invoke("insertExpr", <<root, op, rhs.v>>))

parseUnaryExpr(s) ==
  LET t00 == Invoke("ScanIgnoreWhitespace", <<s>>)
      inner == Invoke("ParseExpr", <<t00.s>>)
      close == Invoke("ScanIgnoreWhitespace", <<inner.s>>)
      t == Invoke("ScanIgnoreWhitespace", <<Unscan(t00.s)>>)
      pos == t.pos
      tok == t.tok
      lit == t.lit
      t0 == Invoke("scan", <<t.s>>)
      t1 == Invoke("ScanIgnoreWhitespace", <<t0.s>>)
      t2 == Invoke("scan", <<t0.s>>)
      f == Invoke("ParseFloat", <<lit>>)
      i == Invoke("ParseInt", <<lit>>)
      u == Invoke("ParseUint", <<lit>>)
      d == Invoke("ParseDuration", <<lit>>)
      k == TrimPrefix(lit, "$")
      mul == IF tok = "SUB" THEN -1 ELSE 1
      s0 == Invoke("ScanIgnoreWhitespace", <<t.s>>)
      operand == parseUnaryExpr(Unscan(s0.s))
      x == operand.v
  IN IF t00.tok = "LPAREN"
     THEN IF inner.err # NoErr THEN inner
          ELSE IF close.tok # "RPAREN"
               THEN Fail(close.s, newParseError(tokstr(close.tok, close.lit), <<")">>, close.pos))
          ELSE Ok(close.s, ParenExpr(inner.v))
     ELSE
     CASE tok = "IDENT" ->
            IF t0.tok = "LPAREN" THEN Invoke("parseCall", <<t0.s, lit>>)
            ELSE Invoke("ParseVarRef", <<Unscan(Unscan(t0.s))>>)
       [] tok = "DISTINCT" ->
            IF t0.tok = "LPAREN" THEN Invoke("parseCall", <<t0.s, <<"d", "i", "s", "t", "i", "n", "c", "t">>>>)
            ELSE IF t0.tok = "WS"
                 THEN IF t1.tok # "IDENT"
                      THEN Fail(t1.s, newParseError(tokstr(t1.tok, t1.lit), <<"identifier">>, t1.pos))
                      ELSE Ok(t1.s, Distinct(t1.lit))
            ELSE Fail(t0.s, newParseError(tokstr(t0.tok, t0.lit), <<"(", "identifier">>, t0.pos))
       [] tok = "STRING" -> Ok(t.s, StringLiteral(lit))
       [] tok = "NUMBER" ->
            IF f.err # "nil" THEN Fail(t.s, ParseErrorMsg(<<"unable to parse number">>, pos))
            ELSE Ok(t.s, NumberLiteral(f.val))
       [] tok = "INTEGER" ->
            IF i.err = "nil" THEN Ok(t.s, IntegerLiteral(i.val))
            ELSE IF u.err = "nil" THEN Ok(t.s, UnsignedLiteral(u.val))
            ELSE Fail(t.s, ParseErrorMsg(<<"unable to parse integer">>, pos))
       [] tok \in {"TRUE", "FALSE"} -> Ok(t.s, BooleanLiteral(tok = "TRUE"))
       [] tok = "DURATIONVAL" ->
            IF d.err # NoErr THEN Fail(t.s, d.err) ELSE Ok(t.s, DurationLiteral(d.val))
       [] tok = "MUL" ->
            IF t0.tok = "DOUBLECOLON"
            THEN IF t2.tok \in {"FIELD", "TAG"} THEN Ok(t2.s, Wildcard(t2.tok))
                 ELSE Fail(t2.s, newParseError(tokstr(t2.tok, t2.lit), <<"field", "tag">>, t2.pos))
            ELSE Ok(Unscan(t0.s), Wildcard("ILLEGAL"))
       [] tok = "REGEX" ->
            IF ~Invoke("regexpCompileOK", <<lit>>) THEN Fail(t.s, ParseErrorMsg(<<"error parsing regexp">>, pos))
            ELSE Ok(t.s, RegexLiteral(lit))
       [] tok = "BOUNDPARAM" ->
            IF Len(k) = 0 THEN Fail(t.s, NewError(<<"empty bound parameter">>))
            ELSE IF k \notin DOMAIN t.s.params THEN Fail(t.s, NewError(<<"missing parameter: ">> \o k))
            ELSE Fail(t.s, NewError(Invoke("ValueString", <<t.s.params[k]>>)))
       [] tok \in {"ADD", "SUB"} ->
            IF s0.tok \notin {"NUMBER", "INTEGER", "DURATIONVAL", "LPAREN", "IDENT"}
            THEN Fail(s0.s, newParseError(tokstr(s0.tok, s0.lit),
                                          <<"identifier", "number", "duration", "(">>, s0.pos))
            ELSE IF operand.err # NoErr THEN operand
            ELSE CASE x.kind = "NumberLiteral" ->
                        Ok(operand.s, NumberLiteral(IF mul = -1 THEN Float(~x.Val.neg, x.Val.ip, x.Val.fp) ELSE x.Val))
                   [] x.kind = "IntegerLiteral" -> Ok(operand.s, IntegerLiteral(MulSign(x.Val, mul)))
                   [] x.kind = "UnsignedLiteral" ->
                        IF tok = "SUB"
                        THEN IF x.Val = MaxInt64Plus1 THEN Ok(operand.s, IntegerLiteral(MinInt64))
                             ELSE Fail(operand.s, NewError(<<"constant -">> \o x.Val \o <<" underflows int64">>))
                        ELSE operand
                   [] x.kind = "DurationLiteral" -> Ok(operand.s, DurationLiteral(MulSign(x.Val, mul)))
                   [] x.kind \in {"VarRef", "Call", "ParenExpr"} ->
                        Ok(operand.s, BinaryExpr("MUL", IntegerLiteral(Int64(mul = -1, <<"1">>)), x))
                   [] OTHER -> Fail(operand.s, Panic(<<"unexpected literal: ", x.kind>>))
       [] OTHER ->
            Fail(t.s, newParseError(tokstr(tok, lit), <<"identifier", "string", "number", "bool">>, pos))

parseCall(s, name0) ==
  LET name == Invoke("ToLower", <<name0>>)
      re == Invoke("parseRegex", <<s>>)
      t == Invoke("scan", <<re.s>>)
      arg == Invoke("ParseExpr", <<Unscan(t.s)>>)
  IN IF re.err # NoErr THEN re
     ELSE IF re.v # Nil THEN Invoke("parseCallArgs", <<re.s, name, <<re.v>>>>)
     ELSE IF t.tok = "RPAREN" THEN Ok(t.s, Call(name, <<>>))
     ELSE IF arg.err # NoErr THEN arg
     ELSE Invoke("parseCallArgs", <<arg.s, name, <<arg.v>>>>)

\* the loop over additional arguments and the closing parenthesis
parseCallArgs(s, name, args) ==
  LET t == Invoke("ScanIgnoreWhitespace", <<s>>)
      re == Invoke("parseRegex", <<t.s>>)
      arg == Invoke("ParseExpr", <<re.s>>)
      close == Invoke("scan", <<Unscan(t.s)>>)
  IN IF t.tok # "COMMA"
     THEN IF close.tok # "RPAREN"
          THEN Fail(close.s, newParseError(tokstr(close.tok, close.lit), <<")">>, close.pos))
          ELSE Ok(close.s, Call(name, args))
     ELSE IF re.err # NoErr THEN re
     ELSE IF re.v # Nil THEN parseCallArgs(re.s, name, Append(args, re.v))
     ELSE IF arg.err # NoErr THEN arg
     ELSE parseCallArgs(arg.s, name, Append(args, arg.v))

(***************************************************************************)
(* package ast: statement nodes.  A Go slice is a sequence; where Walk     *)
(* hands a slice to the visitor it is wrapped as a node of its own kind.   *)
(***************************************************************************)
Field(expr, alias) == [kind |-> "Field", Expr |-> expr, Alias |-> alias]
Dimension(expr) == [kind |-> "Dimension", Expr |-> expr]
SortField(name, ascending) == [kind |-> "SortField", Name |-> name, Ascending |-> ascending]
Metric(db, ttl, name, regex, isTarget) ==
  [kind |-> "Metric", Database |-> db, TimeToLive |-> ttl, Name |-> name, Regex |-> regex,
   IsTarget |-> isTarget, SystemIterator |-> <<>>]
Target(metric) == [kind |-> "Target", Metric |-> metric]
SubQuery(stmt) == [kind |-> "SubQuery", Statement |-> stmt]
Query(statements) == [kind |-> "Query", Statements |-> statements]
ListNode(kind, items) == [kind |-> kind, Items |-> items]
\* a nil pointer of a concrete type stored in an interface: not equal to nil
TypedNil(kind) == [kind |-> kind, isNil |-> TRUE]
IsTypedNil(node) == "isNil" \in DOMAIN node

(***************************************************************************)
(* package ast: Walk.  A visitor is [name, st]: the Go type of the visitor *)
(* and its fields; NoVisitor is the nil Visitor.  Walk returns the         *)
(* visitor's fields after the traversal.                                   *)
(***************************************************************************)
NoVisitor == "nil"

ComparisonOps == {"EQ", "NEQ", "EQREGEX", "NEQREGEX", "LT", "LTE", "GT", "GTE", "AND", "OR"}

\* a visitor that gives up below any node that is not a BinaryExpr
validateField_VisitTop(c, n) ==
  IF n.kind # "BinaryExpr" THEN [v |-> NoVisitor, st |-> c]
  ELSE IF n.Op \in ComparisonOps
       THEN [v |-> NoVisitor, st |-> [foundInvalid |-> TRUE, badToken |-> n.Op]]
       ELSE [v |-> "validateField", st |-> c]

\* a visitor that does not look inside parentheses
isRawQuery_VisitNoParen(st, n) ==
  [v |-> IF n.kind = "ParenExpr" THEN NoVisitor ELSE "isRawQuery",
   st |-> IF n.kind = "Call" THEN FALSE ELSE st]

\* validateField.Visit
validateField_Visit(c, n) ==
  IF n.kind # "BinaryExpr" THEN [v |-> "validateField", st |-> c]
  ELSE IF n.Op \in ComparisonOps
       THEN [v |-> NoVisitor, st |-> [foundInvalid |-> TRUE, badToken |-> n.Op]]
       ELSE [v |-> "validateField", st |-> c]

\* the function literal of parseSelectStatement, run by walkFuncVisitor.Visit;
\* st is stmt.IsRawQuery
isRawQuery_Visit(st, n) ==
  [v |-> "isRawQuery", st |-> IF n.kind = "Call" THEN FALSE ELSE st]

\* the visitors of a caller of Walk: one visitor for every level of the tree
LevelNames == <<"level0", "level1", "level2", "level3", "level4", "level5", "level6", "level7", "level8", "level9", "level10", "level11", "level12", "level13", "level14", "level15">>
LevelOf(v) == CHOOSE i \in 1..Len(LevelNames) : LevelNames[i] = v
IsLevel(v) == \E i \in 1..Len(LevelNames) : LevelNames[i] = v

\* Visit of the visitor of a level: it records the node with its own name and
\* returns nil at the kinds of node it was told to prune, else the visitor
\* of the next level; st is what the visitors share
level_Visit(v, st, n) ==
  [v |-> IF n.kind \in st.prune THEN NoVisitor ELSE LevelNames[LevelOf(v) + 1],
   st |-> [st EXCEPT !.log = Append(@, [node |-> n, v |-> v])]]

\* v.Visit(node) by the dynamic type of v
Visit(v, st, n) ==
  CASE v = "validateField" -> Invoke("validateField_Visit", <<st, n>>)
    [] v = "isRawQuery" -> Invoke("isRawQuery_Visit", <<st, n>>)
    [] IsLevel(v) -> level_Visit(v, st, n)

RECURSIVE Walk(_, _, _)
RECURSIVE WalkAll(_, _, _)
\* a Walk that hands its own visitor to the children, not the one Visit returned
WalkOwnVisitor(v, st, node) ==
  IF node = Nil THEN st
  ELSE LET r == Invoke("Visit", <<v, st, node>>)
           w == r.v
       IN IF w = NoVisitor THEN r.st
          ELSE CASE node.kind = "BinaryExpr" -> Walk(v, Walk(v, r.st, node.LHS), node.RHS)
                 [] node.kind = "Call" -> Invoke("WalkAll", <<v, r.st, node.Args>>)
                 [] node.kind \in {"Dimension", "Field", "ParenExpr"} -> Walk(v, r.st, node.Expr)
                 [] node.kind \in {"Dimensions", "Fields", "SortFields", "Sources", "Statements"} ->
                      Invoke("WalkAll", <<v, r.st, node.Items>>)
                 [] node.kind = "Query" -> Walk(v, r.st, ListNode("Statements", node.Statements))
                 [] node.kind = "SelectStatement" ->
                      LET s1 == Walk(v, r.st, ListNode("Fields", node.Fields))
                          s2 == Walk(v, s1, IF node.Target = Nil THEN TypedNil("Target") ELSE node.Target)
                          s3 == Walk(v, s2, ListNode("Dimensions", node.Dimensions))
                          s4 == Walk(v, s3, ListNode("Sources", node.Sources))
                          s5 == Walk(v, s4, node.Condition)
                      IN Walk(v, s5, ListNode("SortFields", node.SortFields))
                 [] node.kind = "SubQuery" -> Walk(v, r.st, node.Statement)
                 [] node.kind = "Target" ->
                      IF IsTypedNil(node) THEN r.st ELSE Walk(v, r.st, node.Metric)
                 [] OTHER -> r.st

\* Walk: st is the state the visitors share, returned after the walk
Walk(v, st, node) ==
  IF node = Nil THEN st
  ELSE LET r == Invoke("Visit", <<v, st, node>>)
           w == r.v
       IN IF w = NoVisitor THEN r.st
          ELSE CASE node.kind = "BinaryExpr" -> Walk(w, Walk(w, r.st, node.LHS), node.RHS)
                 [] node.kind = "Call" -> Invoke("WalkAll", <<w, r.st, node.Args>>)
                 [] node.kind \in {"Dimension", "Field", "ParenExpr"} -> Walk(w, r.st, node.Expr)
                 [] node.kind \in {"Dimensions", "Fields", "SortFields", "Sources", "Statements"} ->
                      Invoke("WalkAll", <<w, r.st, node.Items>>)
                 [] node.kind = "Query" -> Walk(w, r.st, ListNode("Statements", node.Statements))
                 [] node.kind = "SelectStatement" ->
                      LET s1 == Walk(w, r.st, ListNode("Fields", node.Fields))
                          s2 == Walk(w, s1, IF node.Target = Nil THEN TypedNil("Target") ELSE node.Target)
                          s3 == Walk(w, s2, ListNode("Dimensions", node.Dimensions))
                          s4 == Walk(w, s3, ListNode("Sources", node.Sources))
                          s5 == Walk(w, s4, node.Condition)
                      IN Walk(w, s5, ListNode("SortFields", node.SortFields))
                 [] node.kind = "SubQuery" -> Walk(w, r.st, node.Statement)
                 [] node.kind = "Target" ->
                      IF IsTypedNil(node) THEN r.st ELSE Walk(w, r.st, node.Metric)
                 [] OTHER -> r.st

\* the range loops of Walk
WalkAll(v, st, nodes) ==
  IF nodes = <<>> THEN st ELSE WalkAll(v, Invoke("Walk", <<v, st, Head(nodes)>>), Tail(nodes))

(***************************************************************************)
(* package ast: String()                                                   *)
(***************************************************************************)
DataTypeString(d) ==
  CASE d = "Float" -> <<"f", "l", "o", "a", "t">>
    [] d = "Integer" -> <<"i", "n", "t", "e", "g", "e", "r">>
    [] d = "Unsigned" -> <<"u", "n", "s", "i", "g", "n", "e", "d">>
    [] d = "String" -> <<"s", "t", "r", "i", "n", "g">>
    [] d = "Boolean" -> <<"b", "o", "o", "l", "e", "a", "n">>
    [] d = "Time" -> <<"t", "i", "m", "e">>
    [] d = "Duration" -> <<"d", "u", "r", "a", "t", "i", "o", "n">>
    [] d = "Tag" -> <<"t", "a", "g">>
    [] d = "AnyField" -> <<"f", "i", "e", "l", "d">>
    [] OTHER -> <<"u", "n", "k", "n", "o", "w", "n">>

RegexLiteralString(r) == <<"/">> \o Replace(r.Val, "/" :> <<"\\", "/">>) \o <<"/">>

RECURSIVE ExprString(_)
RECURSIVE ExprStrings(_)
ExprString(e) ==
  CASE e.kind = "BinaryExpr" ->
         ExprString(e.LHS) \o <<" ">> \o TokenString(e.Op) \o <<" ">> \o ExprString(e.RHS)
    [] e.kind = "Call" -> e.Name \o <<"(">> \o Join(Invoke("ExprStrings", <<e.Args>>), <<",", " ">>) \o <<")">>
    [] e.kind = "Distinct" -> <<"D", "I", "S", "T", "I", "N", "C", "T", " ">> \o e.Val
    [] e.kind = "ParenExpr" -> <<"(">> \o ExprString(e.Expr) \o <<")">>
    [] e.kind = "VarRef" ->
         Invoke("QuoteIdent", <<<<e.Val>>>>)
         \o (IF e.Type # "Unknown" THEN <<":", ":">> \o Invoke("DataTypeString", <<e.Type>>) ELSE <<>>)
    [] e.kind = "Wildcard" ->
         IF e.Type = "FIELD" THEN <<"*", ":", ":", "f", "i", "e", "l", "d">>
         ELSE IF e.Type = "TAG" THEN <<"*", ":", ":", "t", "a", "g">>
         ELSE <<"*">>
    [] e.kind = "NumberLiteral" -> Invoke("FormatFloat3", <<e.Val>>)
    [] e.kind = "IntegerLiteral" -> Invoke("FormatInt", <<e.Val>>)
    [] e.kind = "UnsignedLiteral" -> e.Val
    [] e.kind = "BooleanLiteral" -> IF e.Val THEN <<"t", "r", "u", "e">> ELSE <<"f", "a", "l", "s", "e">>
    [] e.kind = "StringLiteral" -> Invoke("QuoteString", <<e.Val>>)
    [] e.kind = "DurationLiteral" -> Invoke("FormatDuration", <<e.Val>>)
    [] e.kind = "RegexLiteral" -> Invoke("RegexLiteralString", <<e>>)

ExprStrings(es) == IF es = <<>> THEN <<>> ELSE <<Invoke("ExprString", <<Head(es)>>)>> \o ExprStrings(Tail(es))

FieldString(f) ==
  IF f.Alias = <<>> THEN Invoke("ExprString", <<f.Expr>>)
  ELSE Invoke("ExprString", <<f.Expr>>) \o <<" ", "A", "S", " ">> \o Invoke("QuoteIdent", <<<<f.Alias>>>>)

MetricString(m) ==
  (IF m.Database # <<>> THEN Invoke("QuoteIdent", <<<<m.Database>>>>) \o <<".">> ELSE <<>>)
  \o (IF m.TimeToLive # <<>> THEN Invoke("QuoteIdent", <<<<m.TimeToLive>>>>) ELSE <<>>)
  \o (IF m.Database # <<>> \/ m.TimeToLive # <<>> THEN <<".">> ELSE <<>>)
  \o (IF m.Name # <<>> /\ m.SystemIterator = <<>> THEN Invoke("QuoteIdent", <<<<m.Name>>>>)
      ELSE IF m.SystemIterator # <<>> THEN Invoke("QuoteIdent", <<<<m.SystemIterator>>>>)
      ELSE IF m.Regex # Nil THEN Invoke("RegexLiteralString", <<m.Regex>>)
      ELSE <<>>)

TargetString(t) ==
  IF t = Nil THEN <<>>
  ELSE <<"I", "N", "T", "O", " ">> \o Invoke("MetricString", <<t.Metric>>)
       \o (IF t.Metric.Name = <<>> THEN <<":", "M", "E", "T", "R", "I", "C">> ELSE <<>>)

SortFieldString(f) ==
  (IF f.Name # <<>> THEN f.Name \o <<" ">> ELSE <<>>)
  \o (IF f.Ascending THEN <<"A", "S", "C">> ELSE <<"D", "E", "S", "C">>)

\* fmt %v of the fill value
FillValueString(fv) == IF fv.t = "int64" THEN Invoke("FormatInt", <<fv.v>>) ELSE Invoke("FormatFloatShortest", <<fv.v>>)

IsPositive(v) == ~v.neg /\ v # IntZero

Map(F(_), xs) == [i \in 1..Len(xs) |-> F(xs[i])]

RECURSIVE SelectStatementString(_)
RECURSIVE SourceStrings(_)
SelectStatementString(s) ==
  <<"S", "E", "L", "E", "C", "T", " ">>
  \o Join(Map(FieldString, s.Fields), <<",", " ">>)
  \o (IF s.Target # Nil THEN <<" ">> \o Invoke("TargetString", <<s.Target>>) ELSE <<>>)
  \o (IF Len(s.Sources) > 0 THEN <<" ", "F", "R", "O", "M", " ">> \o Join(Invoke("SourceStrings", <<s.Sources>>), <<",", " ">>)
      ELSE <<>>)
  \o (IF s.Condition # Nil THEN <<" ", "W", "H", "E", "R", "E", " ">> \o Invoke("ExprString", <<s.Condition>>) ELSE <<>>)
  \o (IF Len(s.Dimensions) > 0
      THEN <<" ", "G", "R", "O", "U", "P", " ", "B", "Y", " ">>
           \o Join(Map(LAMBDA d : Invoke("ExprString", <<d.Expr>>), s.Dimensions), <<",", " ">>)
      ELSE <<>>)
  \o (CASE s.Fill = "NoFill" -> <<" ", "f", "i", "l", "l", "(", "n", "o", "n", "e", ")">>
        [] s.Fill = "NumberFill" -> <<" ", "f", "i", "l", "l", "(">> \o Invoke("FillValueString", <<s.FillValue>>) \o <<")">>
        [] s.Fill = "LinearFill" -> <<" ", "f", "i", "l", "l", "(", "l", "i", "n", "e", "a", "r", ")">>
        [] s.Fill = "PreviousFill" ->
             <<" ", "f", "i", "l", "l", "(", "p", "r", "e", "v", "i", "o", "u", "s", ")">>
        [] OTHER -> <<>>)
  \o (IF Len(s.SortFields) > 0
      THEN <<" ", "O", "R", "D", "E", "R", " ", "B", "Y", " ">>
           \o Join(Map(SortFieldString, s.SortFields), <<",", " ">>)
      ELSE <<>>)
  \o (IF IsPositive(s.Limit) THEN <<" ", "L", "I", "M", "I", "T", " ">> \o Invoke("FormatInt", <<s.Limit>>) ELSE <<>>)
  \o (IF IsPositive(s.Offset) THEN <<" ", "O", "F", "F", "S", "E", "T", " ">> \o Invoke("FormatInt", <<s.Offset>>) ELSE <<>>)
  \o (IF IsPositive(s.SLimit) THEN <<" ", "S", "L", "I", "M", "I", "T", " ">> \o Invoke("FormatInt", <<s.SLimit>>) ELSE <<>>)
  \o (IF IsPositive(s.SOffset) THEN <<" ", "S", "O", "F", "F", "S", "E", "T", " ">> \o Invoke("FormatInt", <<s.SOffset>>)
      ELSE <<>>)
  \o (IF s.Location # Nil THEN <<" ", "T", "Z", "(", "'">> \o s.Location.name \o <<"'", ")">> ELSE <<>>)

SourceStrings(a) ==
  IF a = <<>> THEN <<>>
  ELSE <<IF Head(a).kind = "SubQuery"
         THEN <<"(">> \o Invoke("SelectStatementString", <<Head(a).Statement>>) \o <<")">>
         ELSE Invoke("MetricString", <<Head(a)>>)>> \o SourceStrings(Tail(a))

\* Statements.String
StatementsString(a) == Join(Map(SelectStatementString, a), <<";", NL>>)

(***************************************************************************)
(* package parser: the SELECT statement                                    *)
(***************************************************************************)
SelectStatement(fields, target, sources, condition, dimensions, fill, sortFields, limit, offset, slimit, soffset, location) ==
  [kind |-> "SelectStatement", Fields |-> fields, Target |-> target, Dimensions |-> dimensions,
   Sources |-> sources, Condition |-> condition, SortFields |-> sortFields,
   Limit |-> limit, Offset |-> offset, SLimit |-> slimit, SOffset |-> soffset,
   IsRawQuery |-> Invoke("Walk", <<"isRawQuery", TRUE, ListNode("Fields", fields)>>),
   Fill |-> fill.Fill, FillValue |-> fill.FillValue, Location |-> location]

parseAlias(s) ==
  LET t == Invoke("ScanIgnoreWhitespace", <<s>>)
  IN IF t.tok # "AS" THEN Ok(Unscan(t.s), <<>>) ELSE Invoke("parseIdent", <<t.s>>)

parseField(s) ==
  LET re == Invoke("parseRegex", <<s>>)
      t == Invoke("ScanIgnoreWhitespace", <<re.s>>)
      pos == t.pos
      e == Invoke("ParseExpr", <<Unscan(t.s)>>)
      c == Invoke("Walk", <<"validateField", [foundInvalid |-> FALSE, badToken |-> "ILLEGAL"], e.v>>)
      x == IF re.v # Nil THEN re ELSE e
      alias == Invoke("parseAlias", <<x.s>>)
  IN IF re.err # NoErr THEN re
     ELSE IF re.v = Nil /\ e.err # NoErr THEN e
     ELSE IF re.v = Nil /\ c.foundInvalid
          THEN Fail(e.s, NewError(<<"invalid operator ">> \o TokenString(c.badToken)
                                  \o <<" in SELECT clause at line ">> \o NatDigits(pos.Line + 1)
                                  \o <<", char ">> \o NatDigits(pos.Char + 1)
                                  \o <<"; operator is intended for WHERE clause">>))
     ELSE IF alias.err # NoErr THEN alias
     ELSE Ok(Invoke("consumeWhitespace", <<alias.s>>), Field(x.v, alias.v))

RECURSIVE parseFieldsLoop(_, _)
parseFieldsLoop(s, fields) ==
  LET f == Invoke("parseField", <<s>>)
      t == Invoke("scan", <<f.s>>)
  IN IF f.err # NoErr THEN f
     ELSE IF t.tok # "COMMA" THEN Ok(Unscan(t.s), Append(fields, f.v))
     ELSE parseFieldsLoop(t.s, Append(fields, f.v))

parseFields(s) == Invoke("parseFieldsLoop", <<s, <<>>>>)

parseTarget(s, tr) ==
  LET t == Invoke("ScanIgnoreWhitespace", <<s>>)
      seg == Invoke("parseSegmentedIdents", <<t.s>>)
      pk == Invoke("Peek", <<seg.s>>)
      colon == Invoke("parseTokens", <<pk.s, <<"COLON", "METRIC">>>>)
      more == Len(seg.v) < 3 /\ pk.ch = ":"
      idents == IF more THEN Append(seg.v, <<>>) ELSE seg.v
      s1 == IF Len(seg.v) >= 3 THEN seg.s ELSE IF more THEN colon.s ELSE pk.s
      metric == CASE Len(idents) = 1 -> Metric(<<>>, <<>>, idents[1], Nil, TRUE)
                  [] Len(idents) = 2 -> Metric(<<>>, idents[1], idents[2], Nil, TRUE)
                  [] Len(idents) = 3 -> Metric(idents[1], idents[2], idents[3], Nil, TRUE)
                  [] OTHER -> Metric(<<>>, <<>>, <<>>, Nil, TRUE)
  IN IF t.tok # "INTO"
     THEN IF tr = "targetRequired"
          THEN Fail(t.s, newParseError(tokstr(t.tok, t.lit), <<"INTO">>, t.pos))
          ELSE Ok(Unscan(t.s), Nil)
     ELSE IF seg.err # NoErr THEN seg
     ELSE IF more /\ colon.err # NoErr THEN colon
     ELSE Ok(s1, Target(metric))

parseCondition(s) ==
  LET t == Invoke("ScanIgnoreWhitespace", <<s>>)
  IN IF t.tok # "WHERE" THEN Ok(Unscan(t.s), Nil) ELSE Invoke("ParseExpr", <<t.s>>)

parseDimension(s) ==
  LET re == Invoke("parseRegex", <<s>>)
      e == Invoke("ParseExpr", <<re.s>>)
  IN IF re.err # NoErr THEN re
     ELSE IF re.v # Nil THEN Ok(re.s, Dimension(re.v))
     ELSE IF e.err # NoErr THEN e
     ELSE Ok(Invoke("consumeWhitespace", <<e.s>>), Dimension(e.v))

RECURSIVE parseDimensionsLoop(_, _)
parseDimensionsLoop(s, dimensions) ==
  LET d == Invoke("parseDimension", <<s>>)
      t == Invoke("scan", <<d.s>>)
  IN IF d.err # NoErr THEN d
     ELSE IF t.tok # "COMMA" THEN Ok(Unscan(t.s), Append(dimensions, d.v))
     ELSE parseDimensionsLoop(t.s, Append(dimensions, d.v))

parseDimensions(s) ==
  LET t == Invoke("ScanIgnoreWhitespace", <<s>>)
      by == Invoke("ScanIgnoreWhitespace", <<t.s>>)
  IN IF t.tok # "GROUP" THEN Ok(Unscan(t.s), <<>>)
     ELSE IF by.tok # "BY" THEN Fail(by.s, newParseError(tokstr(by.tok, by.lit), <<"BY">>, by.pos))
     ELSE Invoke("parseDimensionsLoop", <<by.s, <<>>>>)

NoFillValue == [Fill |-> "NullFill", FillValue |-> Nil]

\* parseFill that keeps the option of an integer argument and drops its value
parseFillNoValue(s) ==
  LET t == Invoke("ScanIgnoreWhitespace", <<s>>)
      s1 == Unscan(t.s)
      e == Invoke("ParseExpr", <<s1>>)
      fill == e.v
      arg == fill.Args[1]
      str == Invoke("ExprString", <<arg>>)
  IN IF t.tok # "IDENT" \/ Invoke("ToLower", <<t.lit>>) # <<"f", "i", "l", "l">> THEN Ok(s1, NoFillValue)
     ELSE IF e.err # NoErr THEN e
     ELSE IF fill.kind # "Call" THEN Fail(e.s, NewError(<<"fill must be a function call">>))
     ELSE IF Len(fill.Args) # 1
          THEN Fail(e.s, NewError(<<"fill requires an argument, e.g.: 0, null, none, previous, linear">>))
     ELSE CASE str = <<"n", "u", "l", "l">> -> Ok(e.s, NoFillValue)
            [] str = <<"n", "o", "n", "e">> -> Ok(e.s, [Fill |-> "NoFill", FillValue |-> Nil])
            [] str = <<"p", "r", "e", "v", "i", "o", "u", "s">> ->
                 Ok(e.s, [Fill |-> "PreviousFill", FillValue |-> Nil])
            [] str = <<"l", "i", "n", "e", "a", "r">> -> Ok(e.s, [Fill |-> "LinearFill", FillValue |-> Nil])
            [] OTHER ->
                 IF arg.kind = "IntegerLiteral"
                 THEN Ok(e.s, [Fill |-> "NumberFill", FillValue |-> Nil])
                 ELSE IF arg.kind = "NumberLiteral"
                 THEN Ok(e.s, [Fill |-> "NumberFill", FillValue |-> [t |-> "float64", v |-> arg.Val]])
                 ELSE Fail(e.s, NewError(<<"expected number argument in fill()">>))

parseFill(s) ==
  LET t == Invoke("ScanIgnoreWhitespace", <<s>>)
      s1 == Unscan(t.s)
      e == Invoke("ParseExpr", <<s1>>)
      fill == e.v
      arg == fill.Args[1]
      str == Invoke("ExprString", <<arg>>)
  IN IF t.tok # "IDENT" \/ Invoke("ToLower", <<t.lit>>) # <<"f", "i", "l", "l">> THEN Ok(s1, NoFillValue)
     ELSE IF e.err # NoErr THEN e
     ELSE IF fill.kind # "Call" THEN Fail(e.s, NewError(<<"fill must be a function call">>))
     ELSE IF Len(fill.Args) # 1
          THEN Fail(e.s, NewError(<<"fill requires an argument, e.g.: 0, null, none, previous, linear">>))
     ELSE CASE str = <<"n", "u", "l", "l">> -> Ok(e.s, NoFillValue)
            [] str = <<"n", "o", "n", "e">> -> Ok(e.s, [Fill |-> "NoFill", FillValue |-> Nil])
            [] str = <<"p", "r", "e", "v", "i", "o", "u", "s">> ->
                 Ok(e.s, [Fill |-> "PreviousFill", FillValue |-> Nil])
            [] str = <<"l", "i", "n", "e", "a", "r">> -> Ok(e.s, [Fill |-> "LinearFill", FillValue |-> Nil])
            [] OTHER ->
                 IF arg.kind = "IntegerLiteral"
                 THEN Ok(e.s, [Fill |-> "NumberFill", FillValue |-> [t |-> "int64", v |-> arg.Val]])
                 ELSE IF arg.kind = "NumberLiteral"
                 THEN Ok(e.s, [Fill |-> "NumberFill", FillValue |-> [t |-> "float64", v |-> arg.Val]])
                 ELSE Fail(e.s, NewError(<<"expected number argument in fill()">>))

\* time.LoadLocation against the zone database of the host
KnownZones == {<<>>, <<"U", "T", "C">>, <<"L", "o", "c", "a", "l">>}
LoadLocation(name) ==
  IF name \in KnownZones
  THEN [err |-> FALSE, loc |-> [kind |-> "Location", name |-> IF name = <<>> THEN <<"U", "T", "C">> ELSE name]]
  ELSE [err |-> TRUE, loc |-> Nil]

parseLocation(s) ==
  LET t == Invoke("ScanIgnoreWhitespace", <<s>>)
      s1 == Unscan(t.s)
      e == Invoke("ParseExpr", <<s1>>)
      tz == e.v
      tzname == tz.Args[1]
      loc == Invoke("LoadLocation", <<tzname.Val>>)
  IN IF t.tok # "IDENT" \/ Invoke("ToLower", <<t.lit>>) # <<"t", "z">> THEN Ok(s1, Nil)
     ELSE IF e.err # NoErr THEN e
     ELSE IF tz.kind # "Call" THEN Fail(e.s, NewError(<<"tz must be a function call">>))
     ELSE IF Len(tz.Args) # 1 THEN Fail(e.s, NewError(<<"tz requires exactly one argument">>))
     ELSE IF tzname.kind # "StringLiteral" THEN Fail(e.s, NewError(<<"expected string argument in tz()">>))
     ELSE IF loc.err THEN Fail(e.s, NewError(<<"unable to find time zone ">> \o tzname.Val))
     ELSE Ok(e.s, loc.loc)

ParseOptionalTokenAndInt(s, tk) ==
  LET t == Invoke("ScanIgnoreWhitespace", <<s>>)
      num == Invoke("ScanIgnoreWhitespace", <<t.s>>)
      n == Invoke("ParseInt", <<num.lit>>).val
  IN IF t.tok # tk THEN Ok(Unscan(t.s), IntZero)
     ELSE IF num.tok # "INTEGER"
          THEN Fail(num.s, newParseError(tokstr(num.tok, num.lit), <<"integer">>, num.pos))
     ELSE IF n.neg THEN Fail(num.s, ParseErrorMsg(TokenString(tk) \o <<" must be >= 0">>, num.pos))
     ELSE Ok(num.s, n)

parseSortField(s) ==
  LET id == Invoke("parseIdent", <<s>>)
      t == Invoke("ScanIgnoreWhitespace", <<id.s>>)
  IN IF id.err # NoErr THEN id
     ELSE IF t.tok # "ASC" /\ t.tok # "DESC" THEN Ok(Unscan(t.s), SortField(id.v, TRUE))
     ELSE Ok(t.s, SortField(id.v, t.tok = "ASC"))

RECURSIVE parseSortFieldsLoop(_, _)
\* the loop over additional sort fields, and the limit of one field
parseSortFieldsLoop(s, fields) ==
  LET t == Invoke("ScanIgnoreWhitespace", <<s>>)
      f == Invoke("parseSortField", <<t.s>>)
  IN IF t.tok # "COMMA"
     THEN IF Len(fields) > 1
          THEN Fail(Unscan(t.s), NewError(<<"only ORDER BY time supported at this time">>))
          ELSE Ok(Unscan(t.s), fields)
     ELSE IF f.err # NoErr THEN f
     ELSE parseSortFieldsLoop(f.s, Append(fields, f.v))

parseSortFields(s) ==
  LET t == Invoke("ScanIgnoreWhitespace", <<s>>)
      f == Invoke("parseSortField", <<Unscan(t.s)>>)
  IN CASE t.tok \in {"ASC", "DESC"} -> Invoke("parseSortFieldsLoop", <<t.s, <<SortField(<<>>, t.tok = "ASC")>>>>)
       [] t.tok = "IDENT" ->
            IF f.err # NoErr THEN f
            ELSE IF t.lit # <<"t", "i", "m", "e">>
                 THEN Fail(f.s, NewError(<<"only ORDER BY time supported at this time">>))
            ELSE Invoke("parseSortFieldsLoop", <<f.s, <<f.v>>>>)
       [] OTHER -> Fail(t.s, newParseError(tokstr(t.tok, t.lit), <<"identifier", "ASC", "DESC">>, t.pos))

parseOrderBy(s) ==
  LET t == Invoke("ScanIgnoreWhitespace", <<s>>)
      by == Invoke("ScanIgnoreWhitespace", <<t.s>>)
  IN IF t.tok # "ORDER" THEN Ok(Unscan(t.s), <<>>)
     ELSE IF by.tok # "BY" THEN Fail(by.s, newParseError(tokstr(by.tok, by.lit), <<"BY">>, by.pos))
     ELSE Invoke("parseSortFields", <<by.s>>)

RECURSIVE parseSelectStatement(_, _)
RECURSIVE parseSource(_, _)
RECURSIVE parseSourcesLoop(_, _, _)

parseSourcesLoop(s, subqueries, sources) ==
  LET src == Invoke("parseSource", <<s, subqueries>>)
      t == Invoke("ScanIgnoreWhitespace", <<src.s>>)
  IN IF src.err # NoErr THEN src
     ELSE IF t.tok # "COMMA" THEN Ok(Unscan(t.s), Append(sources, src.v))
     ELSE parseSourcesLoop(t.s, subqueries, Append(sources, src.v))

parseSources(s, subqueries) == Invoke("parseSourcesLoop", <<s, subqueries, <<>>>>)

parseSource(s, subqueries) ==
  LET re == Invoke("parseRegex", <<s>>)
      t == Invoke("ScanIgnoreWhitespace", <<re.s>>)
      sel == Invoke("parseTokens", <<t.s, <<"SELECT">>>>)
      stmt == Invoke("parseSelectStatement", <<sel.s, "targetSubquery">>)
      close == Invoke("parseTokens", <<stmt.s, <<"RPAREN">>>>)
      s1 == IF subqueries THEN Unscan(t.s) ELSE re.s
      seg == Invoke("parseSegmentedIdents", <<s1>>)
      idents == seg.v
      re2 == Invoke("parseRegex", <<seg.s>>)
  IN IF re.err # NoErr THEN re
     ELSE IF re.v # Nil THEN Ok(re.s, Metric(<<>>, <<>>, <<>>, re.v, FALSE))
     ELSE IF subqueries /\ t.tok = "LPAREN"
          THEN IF sel.err # NoErr THEN sel
               ELSE IF stmt.err # NoErr THEN stmt
               ELSE IF close.err # NoErr THEN close
               ELSE Ok(close.s, SubQuery(stmt.v))
     ELSE IF seg.err # NoErr THEN seg
     ELSE IF Len(idents) = 3 THEN Ok(seg.s, Metric(idents[1], idents[2], idents[3], Nil, FALSE))
     ELSE IF re2.err # NoErr THEN re2
     ELSE IF Len(idents) = 1
          THEN IF re2.v # Nil THEN Ok(re2.s, Metric(<<>>, idents[1], <<>>, re2.v, FALSE))
               ELSE Ok(re2.s, Metric(<<>>, <<>>, idents[1], Nil, FALSE))
     ELSE IF Len(idents) = 2
          THEN IF re2.v # Nil THEN Ok(re2.s, Metric(idents[1], idents[2], <<>>, re2.v, FALSE))
               ELSE Ok(re2.s, Metric(<<>>, idents[1], idents[2], Nil, FALSE))
     ELSE Ok(re2.s, Metric(<<>>, <<>>, <<>>, re2.v, FALSE))

parseSelectStatement(s, tr) ==
  LET fields == Invoke("parseFields", <<s>>)
      target == Invoke("parseTarget", <<fields.s, tr>>)
      from == Invoke("ScanIgnoreWhitespace", <<target.s>>)
      sources == Invoke("parseSources", <<from.s, TRUE>>)
      condition == Invoke("parseCondition", <<sources.s>>)
      dimensions == Invoke("parseDimensions", <<condition.s>>)
      fill == Invoke("parseFill", <<dimensions.s>>)
      sortFields == Invoke("parseOrderBy", <<fill.s>>)
      limit == Invoke("ParseOptionalTokenAndInt", <<sortFields.s, "LIMIT">>)
      offset == Invoke("ParseOptionalTokenAndInt", <<limit.s, "OFFSET">>)
      slimit == Invoke("ParseOptionalTokenAndInt", <<offset.s, "SLIMIT">>)
      soffset == Invoke("ParseOptionalTokenAndInt", <<slimit.s, "SOFFSET">>)
      location == Invoke("parseLocation", <<soffset.s>>)
  IN IF fields.err # NoErr THEN fields
     ELSE IF target.err # NoErr THEN target
     ELSE IF from.tok # "FROM"
          THEN Fail(from.s, newParseError(tokstr(from.tok, from.lit), <<"FROM">>, from.pos))
     ELSE IF sources.err # NoErr THEN sources
     ELSE IF condition.err # NoErr THEN condition
     ELSE IF dimensions.err # NoErr THEN dimensions
     ELSE IF fill.err # NoErr THEN fill
     ELSE IF sortFields.err # NoErr THEN sortFields
     ELSE IF limit.err # NoErr THEN limit
     ELSE IF offset.err # NoErr THEN offset
     ELSE IF slimit.err # NoErr THEN slimit
     ELSE IF soffset.err # NoErr THEN soffset
     ELSE IF location.err # NoErr THEN location
     ELSE Ok(location.s,
             Invoke("SelectStatement", <<fields.v, target.v, sources.v, condition.v, dimensions.v, fill.v,
                             sortFields.v, limit.v, offset.v, slimit.v, soffset.v, location.v>>))

ParseStatement(s) ==
  LET t == Invoke("ScanIgnoreWhitespace", <<s>>)
  IN IF t.tok = "SELECT" THEN Invoke("parseSelectStatement", <<t.s, "targetNotRequired">>)
     ELSE Fail(t.s, newParseError(tokstr(t.tok, t.lit), <<TokenString("SELECT")>>, t.pos))

\* a turn of the loop that pushes a semicolon back after it scanned it
QueryLoopUnscanned(s, sm, ss) ==
  LET t == Invoke("ScanIgnoreWhitespace", <<s>>)
      r == Invoke("ParseStatement", <<Unscan(t.s)>>)
  IN IF t.tok = "EOF"
     THEN [s |-> t.s, semi |-> sm, stmts |-> ss, pc |-> "returned", err |-> NoErr, v |-> Query(ss)]
     ELSE IF t.tok = "SEMICOLON"
     THEN [s |-> Unscan(t.s), semi |-> TRUE, stmts |-> ss, pc |-> "loop", err |-> NoErr, v |-> Nil]
     ELSE IF ~sm
     THEN [s |-> t.s, semi |-> sm, stmts |-> ss, pc |-> "failed",
           err |-> newParseError(tokstr(t.tok, t.lit), <<<<";">>>>, t.pos), v |-> Nil]
     ELSE IF r.err # NoErr
     THEN [s |-> r.s, semi |-> sm, stmts |-> ss, pc |-> "failed", err |-> r.err, v |-> Nil]
     ELSE [s |-> r.s, semi |-> FALSE, stmts |-> Append(ss, r.v), pc |-> "loop", err |-> NoErr, v |-> Nil]

\* one turn of the loop of ParseQuery: the parser, semi, the statements, and
\* the result when the turn returns
QueryLoop(s, sm, ss) ==
  LET t == Invoke("ScanIgnoreWhitespace", <<s>>)
      r == Invoke("ParseStatement", <<Unscan(t.s)>>)
  IN IF t.tok = "EOF"
     THEN [s |-> t.s, semi |-> sm, stmts |-> ss, pc |-> "returned", err |-> NoErr, v |-> Query(ss)]
     ELSE IF t.tok = "SEMICOLON"
     THEN [s |-> t.s, semi |-> TRUE, stmts |-> ss, pc |-> "loop", err |-> NoErr, v |-> Nil]
     ELSE IF ~sm
     THEN [s |-> t.s, semi |-> sm, stmts |-> ss, pc |-> "failed",
           err |-> newParseError(tokstr(t.tok, t.lit), <<<<";">>>>, t.pos), v |-> Nil]
     ELSE IF r.err # NoErr
     THEN [s |-> r.s, semi |-> sm, stmts |-> ss, pc |-> "failed", err |-> r.err, v |-> Nil]
     ELSE [s |-> r.s, semi |-> FALSE, stmts |-> Append(ss, r.v), pc |-> "loop", err |-> NoErr, v |-> Nil]

\* the turns that follow the turn q, at most n with q
TurnsAfter(q, n) ==
  <<q>> \o (IF q.pc = "loop" THEN Invoke("Turns", <<q.s, q.semi, q.stmts, n - 1>>) ELSE <<>>)

\* the turns the loop of ParseQuery takes from a state, at most n of them
Turns(s, sm, ss, n) ==
  IF n = 0 THEN <<>> ELSE TurnsAfter(Invoke("QueryLoop", <<s, sm, ss>>), n)

(***************************************************************************)
(* The calls between the procedures of the packages.  The procedures are   *)
(* mutually recursive (ParseExpr, parseUnaryExpr and parseCall;            *)
(* parseSelectStatement and parseSource), so a call of one procedure by    *)
(* another names the procedure and goes through the one RECURSIVE operator *)
(* Invoke, which applies the procedure to the arguments a[1], a[2], ...    *)
(***************************************************************************)
Invoke(f, a) ==
  CASE f = "ToLower" -> ToLower(a[1])
    [] f = "Lookup" -> Lookup(a[1])
    [] f = "read" -> read(a[1])
    [] f = "ReadRune" -> ReadRune(a[1])
    [] f = "UnreadRune" -> UnreadRune(a[1])
    [] f = "ScanDelimitedLoop" -> ScanDelimitedLoop(a[1], a[2], a[3], a[4], a[5])
    [] f = "ScanDelimited" -> ScanDelimited(a[1], a[2], a[3], a[4], a[5])
    [] f = "ScanStringLoop" -> ScanStringLoop(a[1], a[2], a[3])
    [] f = "ScanString" -> ScanString(a[1])
    [] f = "ScanBareIdentLoop" -> ScanBareIdentLoop(a[1], a[2])
    [] f = "ScanBareIdent" -> ScanBareIdent(a[1])
    [] f = "scanWhitespaceLoop" -> scanWhitespaceLoop(a[1], a[2], a[3])
    [] f = "scanWhitespace" -> scanWhitespace(a[1])
    [] f = "skipUntilNewline" -> skipUntilNewline(a[1])
    [] f = "skipStar" -> skipStar(a[1])
    [] f = "skipUntilEndComment" -> skipUntilEndComment(a[1])
    [] f = "scanString" -> scanString(a[1])
    [] f = "scanIdentLoop" -> scanIdentLoop(a[1], a[2], a[3], a[4])
    [] f = "scanIdent" -> scanIdent(a[1], a[2])
    [] f = "scanner_ScanRegex" -> scanner_ScanRegex(a[1])
    [] f = "scanDigitsLoop" -> scanDigitsLoop(a[1], a[2])
    [] f = "scanDigits" -> scanDigits(a[1])
    [] f = "scanDurationLetters" -> scanDurationLetters(a[1], a[2])
    [] f = "scanDurationRest" -> scanDurationRest(a[1], a[2])
    [] f = "scanNumber" -> scanNumber(a[1])
    [] f = "scanner_Scan" -> scanner_Scan(a[1])
    [] f = "ScanFunc" -> ScanFunc(a[1], a[2])
    [] f = "bufScanner_Scan" -> bufScanner_Scan(a[1])
    [] f = "bufScanner_ScanRegex" -> bufScanner_ScanRegex(a[1])
    [] f = "Peek" -> Peek(a[1])
    [] f = "ParseInt" -> ParseInt(a[1])
    [] f = "ParseUint" -> ParseUint(a[1])
    [] f = "FormatInt" -> FormatInt(a[1])
    [] f = "ParseFloat" -> ParseFloat(a[1])
    [] f = "FormatFloat3" -> FormatFloat3(a[1])
    [] f = "FormatFloatShortest" -> FormatFloatShortest(a[1])
    [] f = "QuoteString" -> QuoteString(a[1])
    [] f = "IdentNeedsQuotes" -> IdentNeedsQuotes(a[1])
    [] f = "QuoteIdentFrom" -> QuoteIdentFrom(a[1], a[2])
    [] f = "QuoteIdent" -> QuoteIdent(a[1])
    [] f = "DSub" -> DSub(a[1], a[2])
    [] f = "DMulDigit" -> DMulDigit(a[1], a[2])
    [] f = "DMulUnit" -> DMulUnit(a[1], a[2])
    [] f = "DReduce" -> DReduce(a[1], a[2])
    [] f = "DModRec" -> DModRec(a[1], a[2], a[3])
    [] f = "DMod" -> DMod(a[1], a[2])
    [] f = "DDivSmallRec" -> DDivSmallRec(a[1], a[2], a[3], a[4])
    [] f = "DDivSmall" -> DDivSmall(a[1], a[2])
    [] f = "Wrap64" -> Wrap64(a[1])
    [] f = "ToUint64" -> ToUint64(a[1])
    [] f = "Add64" -> Add64(a[1], a[2])
    [] f = "SkipDigits" -> SkipDigits(a[1], a[2])
    [] f = "ParseDurationLoop" -> ParseDurationLoop(a[1], a[2], a[3], a[4], a[5])
    [] f = "ParseDuration" -> ParseDuration(a[1])
    [] f = "DivisibleBy" -> DivisibleBy(a[1], a[2])
    [] f = "Quotient" -> Quotient(a[1], a[2])
    [] f = "FormatDuration" -> FormatDuration(a[1])
    [] f = "bindObjectValue" -> bindObjectValue(a[1])
    [] f = "BindValue" -> BindValue(a[1])
    [] f = "TokenType" -> TokenType(a[1])
    [] f = "ValueString" -> ValueString(a[1])
    [] f = "SetParams" -> SetParams(a[1])
    [] f = "scan" -> scan(a[1])
    [] f = "ScanIgnoreWhitespace" -> ScanIgnoreWhitespace(a[1])
    [] f = "consumeWhitespace" -> consumeWhitespace(a[1])
    [] f = "parseIdent" -> parseIdent(a[1])
    [] f = "parseTokens" -> parseTokens(a[1], a[2])
    [] f = "parseSegmentedIdentsLoop" -> parseSegmentedIdentsLoop(a[1], a[2])
    [] f = "parseSegmentedIdents" -> parseSegmentedIdents(a[1])
    [] f = "ParenDepthOK" -> ParenDepthOK(a[1], a[2])
    [] f = "regexpCompileOK" -> regexpCompileOK(a[1])
    [] f = "parseRegex" -> parseRegex(a[1])
    [] f = "ParseVarRef" -> ParseVarRef(a[1])
    [] f = "insertExpr" -> insertExpr(a[1], a[2], a[3])
    [] f = "ParseExpr" -> ParseExpr(a[1])
    [] f = "ParseExprLoop" -> ParseExprLoop(a[1], a[2])
    [] f = "parseUnaryExpr" -> parseUnaryExpr(a[1])
    [] f = "parseCall" -> parseCall(a[1], a[2])
    [] f = "parseCallArgs" -> parseCallArgs(a[1], a[2], a[3])
    [] f = "validateField_Visit" -> validateField_Visit(a[1], a[2])
    [] f = "isRawQuery_Visit" -> isRawQuery_Visit(a[1], a[2])
    [] f = "Visit" -> Visit(a[1], a[2], a[3])
    [] f = "Walk" -> Walk(a[1], a[2], a[3])
    [] f = "WalkAll" -> WalkAll(a[1], a[2], a[3])
    [] f = "DataTypeString" -> DataTypeString(a[1])
    [] f = "RegexLiteralString" -> RegexLiteralString(a[1])
    [] f = "ExprString" -> ExprString(a[1])
    [] f = "ExprStrings" -> ExprStrings(a[1])
    [] f = "FieldString" -> FieldString(a[1])
    [] f = "MetricString" -> MetricString(a[1])
    [] f = "TargetString" -> TargetString(a[1])
    [] f = "SortFieldString" -> SortFieldString(a[1])
    [] f = "FillValueString" -> FillValueString(a[1])
    [] f = "SelectStatementString" -> SelectStatementString(a[1])
    [] f = "SourceStrings" -> SourceStrings(a[1])
    [] f = "StatementsString" -> StatementsString(a[1])
    [] f = "SelectStatement" -> SelectStatement(a[1], a[2], a[3], a[4], a[5], a[6], a[7], a[8], a[9], a[10], a[11], a[12])
    [] f = "parseAlias" -> parseAlias(a[1])
    [] f = "parseField" -> parseField(a[1])
    [] f = "parseFieldsLoop" -> parseFieldsLoop(a[1], a[2])
    [] f = "parseFields" -> parseFields(a[1])
    [] f = "parseTarget" -> parseTarget(a[1], a[2])
    [] f = "parseCondition" -> parseCondition(a[1])
    [] f = "parseDimension" -> parseDimension(a[1])
    [] f = "parseDimensionsLoop" -> parseDimensionsLoop(a[1], a[2])
    [] f = "parseDimensions" -> parseDimensions(a[1])
    [] f = "parseFill" -> parseFill(a[1])
    [] f = "LoadLocation" -> LoadLocation(a[1])
    [] f = "parseLocation" -> parseLocation(a[1])
    [] f = "ParseOptionalTokenAndInt" -> ParseOptionalTokenAndInt(a[1], a[2])
    [] f = "parseSortField" -> parseSortField(a[1])
    [] f = "parseSortFieldsLoop" -> parseSortFieldsLoop(a[1], a[2])
    [] f = "parseSortFields" -> parseSortFields(a[1])
    [] f = "parseOrderBy" -> parseOrderBy(a[1])
    [] f = "parseSourcesLoop" -> parseSourcesLoop(a[1], a[2], a[3])
    [] f = "parseSources" -> parseSources(a[1], a[2])
    [] f = "parseSource" -> parseSource(a[1], a[2])
    [] f = "parseSelectStatement" -> parseSelectStatement(a[1], a[2])
    [] f = "ParseStatement" -> ParseStatement(a[1])
    [] f = "QueryLoop" -> QueryLoop(a[1], a[2], a[3])
    [] f = "Turns" -> Turns(a[1], a[2], a[3], a[4])

(***************************************************************************)
(* The state machine                                                       *)
(***************************************************************************)
(* Each entry point of the package is driven by a caller of its own: the   *)
(* caller builds a text, constructs the parser over it and calls the entry *)
(* point.  SpecExpr drives ParseExpr, Spec drives ParseStatement and       *)
(* String, SpecQuery drives the loop of ParseQuery.                        *)
(***************************************************************************)
MaxOps == 3       \* operators in an operand chain given to ParseExpr
MaxNest == 2      \* nesting depth of a generated field expression
MaxFields == 2    \* fields of a generated SELECT list
MaxSegments == 3  \* segments of a generated source name
MaxItems == 3     \* items of a generated query text

NoResult == [err |-> NoErr, v |-> Nil]
NoShape == [k |-> "none"]

\* the sequences over S of length lo..hi
SeqsOf(S, lo, hi) == UNION {[1..n -> S] : n \in lo..hi}

(***************************************************************************)
(* The caller of ParseExpr                                                 *)
(***************************************************************************)
ChainOps == {"OR", "AND", "EQ", "LT", "ADD", "SUB", "MUL", "DIV"}
Operands == <<"a", "b", "c", "d", "e", "f", "g">>

RECURSIVE ChainTextFrom(_, _)
ChainTextFrom(ops, i) ==
  IF i > Len(ops) THEN <<>>
  ELSE <<" ">> \o TokenString(ops[i]) \o <<" ", Operands[i + 1]>> \o ChainTextFrom(ops, i + 1)

\* a b c ... joined by the operators ops
ChainText(ops) == <<Operands[1]>> \o ChainTextFrom(ops, 1)

Signs == {<<>>, <<"+">>, <<"-">>}

IntTexts ==
  {<<"0">>, <<"1">>, <<"9", "2", "2", "3", "3", "7", "2", "0", "3", "6", "8", "5", "4", "7", "7", "5", "8", "0", "7">>, <<"9", "2", "2", "3", "3", "7", "2", "0", "3", "6", "8", "5", "4", "7", "7", "5", "8", "0", "8">>, <<"9", "2", "2", "3", "3", "7", "2", "0", "3", "6", "8", "5", "4", "7", "7", "5", "8", "0", "9">>,
   <<"1", "8", "4", "4", "6", "7", "4", "4", "0", "7", "3", "7", "0", "9", "5", "5", "1", "6", "1", "5">>, <<"1", "8", "4", "4", "6", "7", "4", "4", "0", "7", "3", "7", "0", "9", "5", "5", "1", "6", "1", "6">>}

\* what a caller may bind to the parameter p
RawValues ==
  {[t |-> "int64", v |-> MinInt64], [t |-> "int64", v |-> Int64(TRUE, <<"5">>)],
   [t |-> "int64", v |-> Int64(FALSE, <<"7">>)],
   [t |-> "string", v |-> <<"s">>], [t |-> "bool", v |-> TRUE],
   [t |-> "nil", v |-> Nil],
   [t |-> "map", v |-> [k |-> <<"r", "e", "g", "e", "x">>, t |-> "string", v |-> <<"r">>]],
   [t |-> "map", v |-> [k |-> <<"i", "n", "t", "e", "g", "e", "r">>, t |-> "string", v |-> <<"7">>]],
   [t |-> "map", v |-> [k |-> <<"d", "u", "r", "a", "t", "i", "o", "n">>, t |-> "string", v |-> <<"1", "h">>]]}

BoundPrefixes == {<<>>, <<"x", " ", ">", " ">>, <<"x", " ", "=", "~", " ">>, <<"-">>}

ExprShapes ==
  {[k |-> "chain", ops |-> o] : o \in SeqsOf(ChainOps, 1, MaxOps)}
  \cup {[k |-> "int", sign |-> sg, lit |-> n] : sg \in Signs, n \in IntTexts}
  \cup {[k |-> "bound", pre |-> pre, raw |-> r] : pre \in BoundPrefixes, r \in RawValues}

ExprText(sh) ==
  CASE sh.k = "chain" -> ChainText(sh.ops)
    [] sh.k = "int" -> sh.sign \o sh.lit
    [] sh.k = "bound" -> sh.pre \o <<"$", "p">>

ExprParams(sh) == IF sh.k = "bound" THEN (<<"p">> :> sh.raw) ELSE <<>>

InitExpr ==
  /\ shape \in ExprShapes
  /\ input = ExprText(shape)
  /\ params = ExprParams(shape)
  /\ pst = NewParser(input, <<>>)
  /\ pc = "new"
  /\ result = NoResult
  /\ printed = <<>> /\ result2 = NoResult /\ semi = TRUE /\ stmts = <<>>

\* p.SetParams(params)
SetParamsStep ==
  /\ pc = "new"
  /\ pst' = [pst EXCEPT !.params = Invoke("SetParams", <<params>>)]
  /\ pc' = "ready"
  /\ UNCHANGED <<input, params, shape, result, printed, result2, semi, stmts>>

\* p.ParseExpr(), with or without parameters set
ParseExprStep ==
  /\ pc \in {"new", "ready"}
  /\ LET r == Invoke("ParseExpr", <<pst>>)
     IN /\ pst' = r.s
        /\ result' = [err |-> r.err, v |-> r.v]
  /\ pc' = IF pc = "new" THEN "done0" ELSE "done"
  /\ UNCHANGED <<input, params, shape, printed, result2, semi, stmts>>

NextExpr == SetParamsStep \/ ParseExprStep

SpecExpr == InitExpr /\ [][NextExpr]_vars

(***************************************************************************)
(* Properties of ParseExpr                                                 *)
(***************************************************************************)
ExprDone == pc \in {"done", "done0"}

\* the precedence levels of the grammar the expression language is read by
Level(op) ==
  CASE op = "OR" -> 1
    [] op = "AND" -> 2
    [] op \in {"EQ", "NEQ", "EQREGEX", "NEQREGEX", "LT", "LTE", "GT", "GTE"} -> 3
    [] op \in {"ADD", "SUB", "BITOR", "BITXOR"} -> 4
    [] op \in {"MUL", "DIV", "MOD", "BITAND"} -> 5

Operand(i) == VarRef(<<Operands[i]>>, "Unknown")

RECURSIVE GrammarTree(_, _, _)
\* the tree of operands i..j under a left-associative precedence grammar:
\* it splits at the last operator of the lowest level
GrammarTree(ops, i, j) ==
  IF i = j THEN Operand(i)
  ELSE LET low == CHOOSE l \in 1..5 :
                    /\ \E k \in i..(j - 1) : Level(ops[k]) = l
                    /\ \A k \in i..(j - 1) : Level(ops[k]) >= l
           at == CHOOSE k \in i..(j - 1) :
                   /\ Level(ops[k]) = low
                   /\ \A m \in (k + 1)..(j - 1) : Level(ops[m]) > low
       IN BinaryExpr(ops[at], GrammarTree(ops, i, at), GrammarTree(ops, at + 1, j))

RECURSIVE Leaves(_)
\* the operands of a tree, left to right
Leaves(e) == IF e.kind = "BinaryExpr" THEN Leaves(e.LHS) \o Leaves(e.RHS) ELSE <<e>>

RECURSIVE SpineOrdered(_)
\* going down any right spine the precedence never decreases, and under a
\* left child it is never lower than its parent's
SpineOrdered(e) ==
  e.kind = "BinaryExpr" =>
    /\ e.RHS.kind = "BinaryExpr" => Level(e.RHS.Op) > Level(e.Op)
    /\ e.LHS.kind = "BinaryExpr" => Level(e.LHS.Op) >= Level(e.Op)
    /\ SpineOrdered(e.LHS)
    /\ SpineOrdered(e.RHS)

\* C2: an operand chain parses to the tree of the left-associative
\* precedence grammar OR < AND < comparisons < ADD/SUB < MUL/DIV: operands in
\* input order, equal precedence grouped to the left, a higher precedence
\* nested under the right child, precedence non-decreasing down a right spine.
C2_Precedence ==
  (ExprDone /\ shape.k = "chain") =>
    LET n == Len(shape.ops)
    IN /\ result.err = NoErr
       /\ result.v = GrammarTree(shape.ops, 1, n + 1)
       /\ Leaves(result.v) = [i \in 1..(n + 1) |-> Operand(i)]
       /\ SpineOrdered(result.v)

\* a + b * c - d has been parsed to (a + (b * c)) - d
C2_Witness ==
  /\ pc = "done"
  /\ shape.k = "chain"
  /\ shape.ops = <<"ADD", "MUL", "SUB">>
  /\ result.v = BinaryExpr("SUB",
                  BinaryExpr("ADD", Operand(1), BinaryExpr("MUL", Operand(2), Operand(3))),
                  Operand(4))

BoundDone == pc = "done" /\ shape.k = "bound" /\ <<"p">> \in DOMAIN pst.params

\* C3: a bound parameter is substituted on every scan path: x =~ $p with p
\* bound to {regex: r} parses to x =~ /r/, and x > $p with p bound to the
\* int64 n parses to x > n.
C3_Substitution ==
  BoundDone =>
    /\ (shape.pre = <<"x", " ", "=", "~", " ">> /\ pst.params[<<"p">>].kind = "RegexValue") =>
         /\ result.err = NoErr
         /\ result.v = BinaryExpr("EQREGEX", VarRef(<<"x">>, "Unknown"),
                                  RegexLiteral(pst.params[<<"p">>].val))
    /\ (shape.pre = <<"x", " ", ">", " ">> /\ pst.params[<<"p">>].kind = "IntegerValue") =>
         /\ result.err = NoErr
         /\ result.v = BinaryExpr("GT", VarRef(<<"x">>, "Unknown"),
                                  IntegerLiteral(pst.params[<<"p">>].val))

\* C4: $p as a primary expression, with p bound to a value BindValue could
\* not bind, fails with exactly the message stored in the ErrorValue.
C4_StoredMessage ==
  (BoundDone /\ shape.pre = <<>> /\ pst.params[<<"p">>].kind = "ErrorValue") =>
    /\ result.v = Nil
    /\ result.err = NewError(pst.params[<<"p">>].val)

\* the integer -v, were integers unbounded
Negated(v) == Int64(~v.neg, v.mag)

\* C10: an INTEGER token n is IntegerLiteral(n) up to MaxInt64,
\* UnsignedLiteral(n) up to MaxUint64 and an error above; unary minus turns
\* UnsignedLiteral(MaxInt64+1) into IntegerLiteral(MinInt64), fails on a
\* larger UnsignedLiteral and turns IntegerLiteral(n) into IntegerLiteral(-n);
\* unary plus changes nothing.
C10_IntegerBounds ==
  /\ (ExprDone /\ shape.k = "int") =>
       LET n == DNorm(shape.lit)
       IN IF DLeq(n, MaxInt64)
          THEN /\ result.err = NoErr
               /\ result.v = IntegerLiteral(IF shape.sign = <<"-">>
                                            THEN Negated(Int64(FALSE, n)) ELSE Int64(FALSE, n))
          ELSE IF DLeq(n, MaxUint64)
          THEN IF shape.sign # <<"-">>
               THEN result.err = NoErr /\ result.v = UnsignedLiteral(n)
               ELSE IF n = MaxInt64Plus1
               THEN result.err = NoErr /\ result.v = IntegerLiteral(MinInt64)
               ELSE result.err # NoErr /\ result.v = Nil
          ELSE result.err # NoErr /\ result.v = Nil
  /\ (BoundDone /\ shape.pre = <<"-">> /\ pst.params[<<"p">>].kind = "IntegerValue") =>
       /\ result.err = NoErr
       /\ result.v = IntegerLiteral(Negated(pst.params[<<"p">>].val))

(***************************************************************************)
(* The caller of ParseStatement and String                                 *)
(*                                                                         *)
(* A field shape is a tree of wrappers over x and DISTINCT "a b"; a source *)
(* shape is a list of name segments with or without a trailing regex, a    *)
(* regex alone, or a subquery.                                             *)
(***************************************************************************)
BaseFields == {[k |-> "var"], [k |-> "distinct"]}

Wrap(e) ==
  {[k |-> "call", e |-> e], [k |-> "paren", e |-> e], [k |-> "mulneg", e |-> e],
   [k |-> "parenadd", e |-> e], [k |-> "cmp", op |-> "EQ", e |-> e],
   [k |-> "cmp", op |-> "AND", e |-> e]}

RECURSIVE FieldShapes(_)
\* the field shapes nested at most n deep
FieldShapes(n) ==
  IF n = 0 THEN BaseFields ELSE BaseFields \cup UNION {Wrap(e) : e \in FieldShapes(n - 1)}

RECURSIVE RenderExpr(_)
RenderExpr(d) ==
  CASE d.k = "var" -> <<"x">>
    [] d.k = "distinct" -> <<"D", "I", "S", "T", "I", "N", "C", "T", " ", "\"", "a", " ", "b", "\"">>
    [] d.k = "call" -> <<"f", "(">> \o RenderExpr(d.e) \o <<")">>
    [] d.k = "paren" -> <<"(">> \o RenderExpr(d.e) \o <<")">>
    [] d.k = "mulneg" -> <<"y", " ", "*", " ", "-">> \o RenderExpr(d.e)
    [] d.k = "parenadd" -> <<"(">> \o RenderExpr(d.e) \o <<")", " ", "+", " ", "y">>
    [] d.k = "cmp" ->
         RenderExpr(d.e) \o <<" ">> \o TokenString(d.op) \o <<" ">>
         \o (IF IsRegexOp(d.op) THEN <<"/", "r", "/">> ELSE <<"y">>)

FirstFields ==
  FieldShapes(MaxNest) \cup {[k |-> "cmp", op |-> o, e |-> [k |-> "var"]] : o \in ComparisonOps}

MoreFields == {[k |-> "var"], [k |-> "call", e |-> [k |-> "var"]],
               [k |-> "cmp", op |-> "EQ", e |-> [k |-> "var"]]}

\* one field of any shape, or a list of several simple fields
FieldLists ==
  {<<f>> : f \in FirstFields}
  \cup {<<f>> \o r : f \in MoreFields, r \in SeqsOf(MoreFields, 1, MaxFields - 1)}

SegNames == <<"a", "b", "c", "d", "e">>

\* "name": a name; "empty": nothing between two dots; "qempty": ""
SegLists ==
  {<<f>> \o r : f \in {"name", "qempty"}, r \in SeqsOf({"name", "empty", "qempty"}, 0, MaxSegments - 1)}

SourceShapes ==
  {[k |-> "segs", segs |-> g, re |-> b] : g \in SegLists, b \in BOOLEAN}
  \cup {[k |-> "regex"]}
  \cup {[k |-> "sub", field |-> f] : f \in MoreFields}

\* the identifier segment i stands for
SegValue(g, i) == IF g[i] = "name" THEN <<SegNames[i]>> ELSE <<>>

RECURSIVE RenderSegs(_, _)
RenderSegs(g, i) ==
  IF i > Len(g) THEN <<>>
  ELSE (IF i > 1 THEN <<".">> ELSE <<>>)
       \o (CASE g[i] = "empty" -> <<>>
             [] g[i] = "qempty" -> <<"\"", "\"">>
             [] i = 1 -> <<"\"", SegNames[i], "\"">>
             [] OTHER -> <<SegNames[i]>>)
       \o RenderSegs(g, i + 1)

RenderSource(d) ==
  CASE d.k = "segs" -> RenderSegs(d.segs, 1) \o (IF d.re THEN <<".", "/", "r", "e", "/">> ELSE <<>>)
    [] d.k = "regex" -> <<"/", "r", "e", "/">>
    [] d.k = "sub" -> <<"(", "S", "E", "L", "E", "C", "T", " ">> \o RenderExpr(d.field) \o <<" ", "F", "R", "O", "M", " ", "m", ")">>

PlainSource == [k |-> "segs", segs |-> <<"name">>, re |-> FALSE]

TargetTexts == {<<>>, <<" ", "I", "N", "T", "O", " ", "t">>, <<" ", "I", "N", "T", "O", " ", "a", ".", "t">>, <<" ", "I", "N", "T", "O", " ", "a", ".", "b", ".", "t">>, <<" ", "I", "N", "T", "O", " ", "a", ".", "b", ".", ":", "M", "E", "T", "R", "I", "C">>}

SuffixTexts == {<<>>, <<" ", "W", "H", "E", "R", "E", " ", "x", " ", ">", " ", "1", " ", "G", "R", "O", "U", "P", " ", "B", "Y", " ", "t">>, <<" ", "O", "R", "D", "E", "R", " ", "B", "Y", " ", "t", "i", "m", "e", " ", "D", "E", "S", "C", " ", "L", "I", "M", "I", "T", " ", "5">>}

SelectShape(fields, target, src, suffix) ==
  [k |-> "select", fields |-> fields, target |-> target, src |-> src, suffix |-> suffix]

StatementShapes ==
  {SelectShape(f, <<>>, PlainSource, <<>>) : f \in FieldLists}
  \cup {SelectShape(<<[k |-> "var"]>>, <<>>, s, <<>>) : s \in SourceShapes}
  \cup {SelectShape(<<f>>, t, PlainSource, x) : f \in MoreFields, t \in TargetTexts, x \in SuffixTexts}

StatementText(sh) ==
  <<"S", "E", "L", "E", "C", "T", " ">> \o Join([i \in 1..Len(sh.fields) |-> RenderExpr(sh.fields[i])], <<",", " ">>)
  \o sh.target \o <<" ", "F", "R", "O", "M", " ">> \o RenderSource(sh.src) \o sh.suffix

Init ==
  /\ shape \in StatementShapes
  /\ input = StatementText(shape)
  /\ params = <<>>
  /\ pst = NewParser(input, <<>>)
  /\ pc = "new"
  /\ result = NoResult
  /\ printed = <<>> /\ result2 = NoResult /\ semi = TRUE /\ stmts = <<>>

\* p.ParseStatement()
ParseStatementStep ==
  /\ pc = "new"
  /\ LET r == Invoke("ParseStatement", <<pst>>)
     IN /\ pst' = r.s
        /\ result' = [err |-> r.err, v |-> r.v]
        /\ pc' = IF r.err = NoErr THEN "parsed" ELSE "failed"
  /\ UNCHANGED <<input, params, shape, printed, result2, semi, stmts>>

\* stmt.String()
StringStep ==
  /\ pc = "parsed"
  /\ printed' = Invoke("SelectStatementString", <<result.v>>)
  /\ pc' = "printed"
  /\ UNCHANGED <<input, params, shape, pst, result, result2, semi, stmts>>

\* ParseStatement(printed): a new parser over the printed text
ReparseStep ==
  /\ pc = "printed"
  /\ LET r == Invoke("ParseStatement", <<NewParser(printed, <<>>)>>)
     IN /\ pst' = r.s
        /\ result2' = [err |-> r.err, v |-> r.v]
  /\ pc' = "reparsed"
  /\ UNCHANGED <<input, params, shape, result, printed, semi, stmts>>

Next == ParseStatementStep \/ StringStep \/ ReparseStep

Spec == Init /\ [][Next]_vars

(***************************************************************************)
(* Properties of ParseStatement and String                                 *)
(***************************************************************************)
Parsed == pc \in {"parsed", "printed", "reparsed"}

\* C1: a statement that parses prints to a text that parses again, to the
\* same tree (the generated texts hold no float and no duration, so the same
\* tree is an equal tree).
C1_RoundTrip == pc = "reparsed" => (result2.err = NoErr /\ result2.v = result.v)

RECURSIVE StatementsOf(_)
\* a statement and the statements of its subqueries
StatementsOf(st) ==
  {st} \cup UNION {StatementsOf(st.Sources[i].Statement) :
                     i \in {j \in DOMAIN st.Sources : st.Sources[j].kind = "SubQuery"}}

RECURSIVE HasCall(_)
HasCall(e) ==
  CASE e.kind = "Call" -> TRUE
    [] e.kind = "BinaryExpr" -> HasCall(e.LHS) \/ HasCall(e.RHS)
    [] e.kind = "ParenExpr" -> HasCall(e.Expr)
    [] OTHER -> FALSE

\* C5: after a successful parse, every SELECT statement (the statement and
\* its subqueries) has IsRawQuery true exactly when none of its own field
\* expressions holds a Call, however deeply nested.
C5_IsRawQuery ==
  Parsed =>
    \A st \in StatementsOf(result.v) :
      st.IsRawQuery <=> (\A i \in DOMAIN st.Fields : ~HasCall(st.Fields[i].Expr))

\* (f(x)) and x FROM (SELECT f(x) FROM m) have been parsed: a call inside
\* parentheses, and a call in the subquery only
C5_Witness ==
  /\ Parsed
  /\ \/ /\ shape.fields = <<[k |-> "paren", e |-> [k |-> "call", e |-> [k |-> "var"]]]>>
        /\ ~result.v.IsRawQuery
     \/ /\ shape.src = [k |-> "sub", field |-> [k |-> "call", e |-> [k |-> "var"]]]
        /\ result.v.IsRawQuery
        /\ ~result.v.Sources[1].Statement.IsRawQuery

\* the field expressions in the order the parser meets them
ShapeFields ==
  shape.fields \o (IF shape.src.k = "sub" THEN <<shape.src.field>> ELSE <<>>)

\* the expression of field i, parsed on its own
FieldExpr(i) == Invoke("ParseExpr", <<NewParser(RenderExpr(ShapeFields[i]), <<>>)>>)

RECURSIVE HasComparison(_)
HasComparison(e) ==
  CASE e.kind = "BinaryExpr" ->
         \/ e.Op \in {"EQ", "NEQ", "EQREGEX", "NEQREGEX", "LT", "LTE", "GT", "GTE", "AND", "OR"}
         \/ HasComparison(e.LHS)
         \/ HasComparison(e.RHS)
    [] e.kind = "Call" -> \E i \in DOMAIN e.Args : HasComparison(e.Args[i])
    [] e.kind = "ParenExpr" -> HasComparison(e.Expr)
    [] OTHER -> FALSE

IsInvalidOperator(err) ==
  /\ err.type = "error"
  /\ \E op \in {"EQ", "NEQ", "EQREGEX", "NEQREGEX", "LT", "LTE", "GT", "GTE", "AND", "OR"} :
       LET pre == <<"invalid operator ">> \o TokenString(op) \o <<" in SELECT clause at line ">>
       IN /\ Len(err.Message) > Len(pre)
          /\ SubSeq(err.Message, 1, Len(pre)) = pre
          /\ err.Message[Len(err.Message)] = "; operator is intended for WHERE clause"

\* C6: a field expression holding a comparison, AND or OR at any depth is
\* rejected with the invalid operator error, and a field expression holding
\* none never is: the statement fails with that error exactly when the first
\* field that is not a plain valid expression holds such an operator.
C6_InvalidOperator ==
  pc # "new" =>
    LET bad == {i \in DOMAIN ShapeFields :
                  FieldExpr(i).err # NoErr \/ HasComparison(FieldExpr(i).v)}
        first == CHOOSE i \in bad : \A j \in bad : i <= j
    IN IF bad = {} THEN ~IsInvalidOperator(result.err)
       ELSE IsInvalidOperator(result.err) <=> FieldExpr(first).err = NoErr

\* f(x = y) and (x AND y) + y have been rejected
C6_Witness ==
  /\ pc = "failed"
  /\ shape.fields[1] \in
       {[k |-> "call", e |-> [k |-> "cmp", op |-> "EQ", e |-> [k |-> "var"]]],
        [k |-> "parenadd", e |-> [k |-> "cmp", op |-> "AND", e |-> [k |-> "var"]]]}
  /\ IsInvalidOperator(result.err)

SourceParsed == Parsed /\ shape.src.k \in {"segs", "regex"}

\* C8: one segment is the name, or the ttl before a regex; two segments are
\* ttl and name, or database and ttl before a regex; three segments are
\* database, ttl and name; a regex alone is the regex only; the empty
\* segment of a double dot is the empty string in its slot.
C8_SourceSlots ==
  SourceParsed =>
    LET m == result.v.Sources[1]
        g == shape.src.segs
        re == RegexLiteral(<<"r", "e">>)
    IN /\ Len(result.v.Sources) = 1
       /\ IF shape.src.k = "regex" THEN m = Metric(<<>>, <<>>, <<>>, re, FALSE)
          ELSE CASE Len(g) = 1 /\ ~shape.src.re -> m = Metric(<<>>, <<>>, SegValue(g, 1), Nil, FALSE)
                 [] Len(g) = 1 /\ shape.src.re -> m = Metric(<<>>, SegValue(g, 1), <<>>, re, FALSE)
                 [] Len(g) = 2 /\ ~shape.src.re ->
                      m = Metric(<<>>, SegValue(g, 1), SegValue(g, 2), Nil, FALSE)
                 [] Len(g) = 2 /\ shape.src.re ->
                      m = Metric(SegValue(g, 1), SegValue(g, 2), <<>>, re, FALSE)
                 [] Len(g) = 3 ->
                      m = Metric(SegValue(g, 1), SegValue(g, 2), SegValue(g, 3), Nil, FALSE)
                 [] OTHER -> FALSE

\* "a"..c has been parsed to database a, empty ttl, name c
C8_Witness ==
  /\ SourceParsed
  /\ shape.src = [k |-> "segs", segs |-> <<"name", "empty", "name">>, re |-> FALSE]
  /\ result.v.Sources[1] = Metric(<<"a">>, <<>>, <<"c">>, Nil, FALSE)

\* C9: no Metric of a source or of an INTO target has a name and a regex
\* together, and a source Metric always has a name or a regex.
C9_NameOrRegex ==
  Parsed =>
    \A st \in StatementsOf(result.v) :
      /\ st.Target # Nil => ~(st.Target.Metric.Name # <<>> /\ st.Target.Metric.Regex # Nil)
      /\ \A i \in DOMAIN st.Sources :
           st.Sources[i].kind = "Metric" =>
             /\ ~(st.Sources[i].Name # <<>> /\ st.Sources[i].Regex # Nil)
             /\ (st.Sources[i].Name # <<>> \/ st.Sources[i].Regex # Nil)

(***************************************************************************)
(* The caller of ParseQuery: a text of statements, semicolons and stray    *)
(* tokens; one action per iteration of ParseQuery's loop                   *)
(***************************************************************************)
Items == {"semi", "A", "B", "stray"}
IsStatementItem(it) == it \in {"A", "B"}

ItemText(it) ==
  CASE it = "semi" -> <<";">>
    [] it = "A" -> <<"S", "E", "L", "E", "C", "T", " ", "x", " ", "F", "R", "O", "M", " ", "m">>
    [] it = "B" -> <<"S", "E", "L", "E", "C", "T", " ", "y", " ", "F", "R", "O", "M", " ", "n">>
    [] it = "stray" -> <<")">>

QueryShapes == {[k |-> "query", items |-> q] : q \in SeqsOf(Items, 0, MaxItems)}

QueryText(items) == Join([i \in 1..Len(items) |-> ItemText(items[i])], <<" ">>)

InitQuery ==
  /\ shape \in QueryShapes
  /\ input = QueryText(shape.items)
  /\ params = <<>>
  /\ pst = NewParser(input, <<>>)
  /\ pc = "loop"
  /\ semi = TRUE
  /\ stmts = <<>>
  /\ result = NoResult
  /\ printed = <<>> /\ result2 = NoResult

\* ParseQuery: the scan finds EOF, the query is returned
QueryEOF ==
  /\ pc = "loop"
  /\ LET t == Invoke("ScanIgnoreWhitespace", <<pst>>)
     IN /\ t.tok = "EOF"
        /\ pst' = t.s
        /\ result' = [err |-> NoErr, v |-> Query(stmts)]
        /\ pc' = "returned"
  /\ UNCHANGED <<input, params, shape, printed, result2, semi, stmts>>

\* a loop step that leaves semi as it was on a semicolon
QuerySemicolonKept ==
  /\ pc = "loop"
  /\ LET t == Invoke("ScanIgnoreWhitespace", <<pst>>)
     IN /\ t.tok = "SEMICOLON"
        /\ pst' = t.s
  /\ UNCHANGED <<input, params, shape, pc, result, printed, result2, semi, stmts>>

\* ParseQuery: the scan finds a semicolon
QuerySemicolon ==
  /\ pc = "loop"
  /\ LET t == Invoke("ScanIgnoreWhitespace", <<pst>>)
     IN /\ t.tok = "SEMICOLON"
        /\ pst' = t.s
        /\ semi' = TRUE
  /\ UNCHANGED <<input, params, shape, pc, result, printed, result2, stmts>>

\* ParseQuery: another token follows a statement with no semicolon between
QueryMissingSemicolon ==
  /\ pc = "loop"
  /\ LET t == Invoke("ScanIgnoreWhitespace", <<pst>>)
     IN /\ t.tok \notin {"EOF", "SEMICOLON"}
        /\ ~semi
        /\ pst' = t.s
        /\ result' = [err |-> newParseError(tokstr(t.tok, t.lit), <<<<";">>>>, t.pos), v |-> Nil]
        /\ pc' = "failed"
  /\ UNCHANGED <<input, params, shape, printed, result2, semi, stmts>>

\* ParseQuery: a statement is parsed and appended
QueryStatement ==
  /\ pc = "loop"
  /\ LET t == Invoke("ScanIgnoreWhitespace", <<pst>>)
         r == Invoke("ParseStatement", <<Unscan(t.s)>>)
     IN /\ t.tok \notin {"EOF", "SEMICOLON"}
        /\ semi
        /\ r.err = NoErr
        /\ pst' = r.s
        /\ stmts' = Append(stmts, r.v)
        /\ semi' = FALSE
  /\ UNCHANGED <<input, params, shape, pc, result, printed, result2>>

\* ParseQuery: the statement does not parse
QueryStatementError ==
  /\ pc = "loop"
  /\ LET t == Invoke("ScanIgnoreWhitespace", <<pst>>)
         r == Invoke("ParseStatement", <<Unscan(t.s)>>)
     IN /\ t.tok \notin {"EOF", "SEMICOLON"}
        /\ semi
        /\ r.err # NoErr
        /\ pst' = r.s
        /\ result' = [err |-> r.err, v |-> Nil]
        /\ pc' = "failed"
  /\ UNCHANGED <<input, params, shape, printed, result2, semi, stmts>>

\* Query.String of the returned query
QueryStringStep ==
  /\ pc = "returned"
  /\ printed' = Invoke("StatementsString", <<result.v.Statements>>)
  /\ pc' = "printed"
  /\ UNCHANGED <<input, params, shape, pst, result, result2, semi, stmts>>

NextQuery ==
  \/ QueryEOF
  \/ QuerySemicolon
  \/ QueryMissingSemicolon
  \/ QueryStatement
  \/ QueryStatementError
  \/ QueryStringStep

SpecQuery == InitQuery /\ [][NextQuery]_vars

(***************************************************************************)
(* Properties of ParseQuery                                                *)
(***************************************************************************)
\* the items at which the text stops being statements separated by ;
BadItems(items) ==
  {i \in DOMAIN items :
     \/ items[i] = "stray"
     \/ IsStatementItem(items[i]) /\ i > 1 /\ IsStatementItem(items[i - 1])}

ItemStatement(it) == Invoke("ParseStatement", <<NewParser(ItemText(it), <<>>)>>).v

ExpectedStatements(items) ==
  LET sel == SelectSeq(items, IsStatementItem)
  IN [i \in 1..Len(sel) |-> ItemStatement(sel[i])]

\* the offset of item i in the text
RECURSIVE ItemOffset(_, _)
ItemOffset(items, i) ==
  IF i = 1 THEN 0 ELSE ItemOffset(items, i - 1) + Len(ItemText(items[i - 1])) + 1

QueryOver == pc \in {"returned", "printed", "failed"}

\* C7: ParseQuery accepts exactly the texts of statements separated by one or
\* more semicolons, with optional leading and trailing semicolons, and
\* returns the statements in input order; when a token other than ; or EOF
\* follows a statement it returns the error "found <tok>, expected ;" and no
\* Query.
C7_ParseQuery ==
  QueryOver =>
    LET items == shape.items
        bad == BadItems(items)
        first == CHOOSE i \in bad : \A j \in bad : i <= j
    IN IF bad = {}
       THEN /\ pc # "failed"
            /\ result = [err |-> NoErr, v |-> Query(ExpectedStatements(items))]
       ELSE /\ pc = "failed"
            /\ result.v = Nil
            /\ (first > 1 /\ IsStatementItem(items[first - 1])) =>
                 result.err =
                   newParseError(IF items[first] = "stray" THEN <<")">> ELSE <<"S", "E", "L", "E", "C", "T">>,
                                 <<<<";">>>>, Pos(0, ItemOffset(items, first)))

\* A ; B has returned the two statements in their order
C7_Witness ==
  /\ pc = "returned"
  /\ shape.items = <<"A", "semi", "B">>
  /\ result.v.Statements = <<ItemStatement("A"), ItemStatement("B")>>

(***************************************************************************)
(* The caller of ParseStatement with parameters: NewParser, SetParams,     *)
(* ParseStatement, over statements that differ in one clause               *)
(***************************************************************************)
LimitKeywords == {"LIMIT", "OFFSET", "SLIMIT", "SOFFSET"}

LimitDigits ==
  {<<"0">>, <<"7">>, <<"0", "0", "7">>, <<"9", "2", "2", "3", "3", "7", "2", "0", "3", "6", "8", "5", "4", "7", "7", "5", "8", "0", "7">>, <<"9", "2", "2", "3", "3", "7", "2", "0", "3", "6", "8", "5", "4", "7", "7", "5", "8", "0", "8">>}

LimitArgs ==
  {[a |-> "absent"], [a |-> "word"]}
  \cup {[a |-> "lit", digits |-> d] : d \in LimitDigits}
  \cup {[a |-> "bound", raw |-> r] :
          r \in {[t |-> "int64", v |-> MinInt64], [t |-> "int64", v |-> Int64(TRUE, <<"5">>)],
                 [t |-> "int64", v |-> Int64(FALSE, <<"7">>)]}}

LimitShapes ==
  {[k |-> "limit", kw |-> kw, arg |-> a] : kw \in LimitKeywords, a \in LimitArgs}
  \cup {[k |-> "limit4"]}

ClauseHead == <<"S", "E", "L", "E", "C", "T", " ", "x", " ", "F", "R", "O", "M", " ", "m">>

LimitText(sh) ==
  CASE sh.arg.a = "absent" -> <<>>
    [] sh.arg.a = "word" -> <<" ">> \o TokenString(sh.kw) \o <<" ", "x">>
    [] sh.arg.a = "lit" -> <<" ">> \o TokenString(sh.kw) \o <<" ">> \o sh.arg.digits
    [] sh.arg.a = "bound" -> <<" ">> \o TokenString(sh.kw) \o <<" ", "$", "p">>

FillWords == {<<"n", "u", "l", "l">>, <<"n", "o", "n", "e">>, <<"p", "r", "e", "v", "i", "o", "u", "s">>, <<"l", "i", "n", "e", "a", "r">>}

FillArgs ==
  {[a |-> "absent"]}
  \cup {[a |-> "word", w |-> w] : w \in FillWords}
  \cup {[a |-> "int", neg |-> n, digits |-> d] :
          n \in BOOLEAN, d \in {<<"0">>, <<"5">>, <<"0", "0", "7">>, <<"9", "2", "2", "3", "3", "7", "2", "0", "3", "6", "8", "5", "4", "7", "7", "5", "8", "0", "7">>}}
  \cup {[a |-> "float", neg |-> n, ip |-> <<"1">>, fp |-> f] : n \in BOOLEAN, f \in {<<"5">>, <<"2", "5">>}}
  \cup {[a |-> "bound", raw |-> [t |-> "int64", v |-> Int64(TRUE, <<"5">>)]]}
  \cup {[a |-> "bad", text |-> t] :
          t \in {<<" ", "f", "i", "l", "l">>, <<" ", "f", "i", "l", "l", "(", ")">>, <<" ", "f", "i", "l", "l", "(", "1", ",", " ", "2", ")">>, <<" ", "f", "i", "l", "l", "(", "x", ")">>, <<" ", "f", "i", "l", "l", "(", "'", "n", "u", "l", "l", "'", ")">>,
                 <<" ", "f", "i", "l", "l", "(", "9", "2", "2", "3", "3", "7", "2", "0", "3", "6", "8", "5", "4", "7", "7", "5", "8", "0", "8", ")">>, <<" ", "F", "I", "L", "L", "(", "N", "O", "N", "E", ")">>}}

FillShapes == {[k |-> "fill", arg |-> a] : a \in FillArgs}

FillText(sh) ==
  LET sign == IF sh.arg.a \in {"int", "float"} /\ sh.arg.neg THEN <<"-">> ELSE <<>>
  IN CASE sh.arg.a = "absent" -> <<>>
       [] sh.arg.a = "word" -> <<" ", "f", "i", "l", "l", "(">> \o sh.arg.w \o <<")">>
       [] sh.arg.a = "int" -> <<" ", "f", "i", "l", "l", "(">> \o sign \o sh.arg.digits \o <<")">>
       [] sh.arg.a = "float" -> <<" ", "f", "i", "l", "l", "(">> \o sign \o sh.arg.ip \o <<".">> \o sh.arg.fp \o <<")">>
       [] sh.arg.a = "bound" -> <<" ", "f", "i", "l", "l", "(", "$", "p", ")">>
       [] sh.arg.a = "bad" -> sh.arg.text

\* statements with one semantic error: the text before the offending token,
\* the offending token with what follows, and the parameter bound to p
ErrorShapes ==
  {[k |-> "error", case |-> "operator", pre |-> <<"S", "E", "L", "E", "C", "T", " ", "x", " ">>, post |-> <<"=", " ", "y", " ", "F", "R", "O", "M", " ", "m">>, raw |-> Nil],
   [k |-> "error", case |-> "segments", pre |-> <<"S", "E", "L", "E", "C", "T", " ", "x", " ", "F", "R", "O", "M", " ", "a", ".", "b", ".", "c", ".">>, post |-> <<"d">>, raw |-> Nil],
   [k |-> "error", case |-> "negative", pre |-> <<"S", "E", "L", "E", "C", "T", " ", "x", " ", "F", "R", "O", "M", " ", "m", " ", "L", "I", "M", "I", "T", " ">>, post |-> <<"$", "p">>,
    raw |-> [t |-> "int64", v |-> Int64(TRUE, <<"5">>)]],
   [k |-> "error", case |-> "orderby", pre |-> <<"S", "E", "L", "E", "C", "T", " ", "x", " ", "F", "R", "O", "M", " ", "m", " ", "O", "R", "D", "E", "R", " ", "B", "Y", " ">>, post |-> <<"x">>, raw |-> Nil],
   [k |-> "error", case |-> "orderby2", pre |-> <<"S", "E", "L", "E", "C", "T", " ", "x", " ", "F", "R", "O", "M", " ", "m", " ", "O", "R", "D", "E", "R", " ", "B", "Y", " ", "t", "i", "m", "e", ",", " ">>, post |-> <<"x">>,
    raw |-> Nil],
   [k |-> "error", case |-> "fill", pre |-> <<"S", "E", "L", "E", "C", "T", " ", "x", " ", "F", "R", "O", "M", " ", "m", " ", "f", "i", "l", "l", "(">>, post |-> <<"x", ")">>, raw |-> Nil],
   [k |-> "error", case |-> "missing", pre |-> <<"S", "E", "L", "E", "C", "T", " ">>, post |-> <<"$", "q", " ", "F", "R", "O", "M", " ", "m">>, raw |-> Nil],
   [k |-> "error", case |-> "empty", pre |-> <<"S", "E", "L", "E", "C", "T", " ">>, post |-> <<"$", " ", "F", "R", "O", "M", " ", "m">>, raw |-> Nil],
   [k |-> "error", case |-> "unbindable", pre |-> <<"S", "E", "L", "E", "C", "T", " ">>, post |-> <<"$", "p", " ", "F", "R", "O", "M", " ", "m">>,
    raw |-> [t |-> "nil", v |-> Nil]],
   [k |-> "error", case |-> "timezone", pre |-> <<"S", "E", "L", "E", "C", "T", " ", "x", " ", "F", "R", "O", "M", " ", "m", " ", "t", "z", "(">>, post |-> <<"'", "N", "o", "w", "h", "e", "r", "e", "'", ")">>,
    raw |-> Nil],
   [k |-> "error", case |-> "integer", pre |-> <<"S", "E", "L", "E", "C", "T", " ">>,
    post |-> <<"1", "8", "4", "4", "6", "7", "4", "4", "0", "7", "3", "7", "0", "9", "5", "5", "1", "6", "1", "6", " ", "F", "R", "O", "M", " ", "m">>, raw |-> Nil],
   [k |-> "error", case |-> "underflow", pre |-> <<"S", "E", "L", "E", "C", "T", " ", "-">>,
    post |-> <<"9", "2", "2", "3", "3", "7", "2", "0", "3", "6", "8", "5", "4", "7", "7", "5", "8", "0", "9", " ", "F", "R", "O", "M", " ", "m">>, raw |-> Nil]}

ClauseShapes == LimitShapes \cup FillShapes \cup ErrorShapes

ClauseText(sh) ==
  CASE sh.k = "limit" -> ClauseHead \o LimitText(sh)
    [] sh.k = "limit4" -> ClauseHead \o <<" ", "L", "I", "M", "I", "T", " ", "1", " ", "O", "F", "F", "S", "E", "T", " ", "2", " ", "S", "L", "I", "M", "I", "T", " ", "3", " ", "S", "O", "F", "F", "S", "E", "T", " ", "4">>
    [] sh.k = "fill" -> ClauseHead \o FillText(sh)
    [] sh.k = "error" -> sh.pre \o sh.post

ClauseParams(sh) ==
  CASE sh.k \in {"limit", "fill"} /\ sh.arg.a = "bound" -> (<<"p">> :> sh.arg.raw)
    [] sh.k = "error" /\ sh.raw # Nil -> (<<"p">> :> sh.raw)
    [] OTHER -> <<>>

InitClause ==
  /\ shape \in ClauseShapes
  /\ input = ClauseText(shape)
  /\ params = ClauseParams(shape)
  /\ pst = NewParser(input, <<>>)
  /\ pc = "new"
  /\ result = NoResult
  /\ printed = <<>> /\ result2 = NoResult /\ semi = TRUE /\ stmts = <<>>

\* the result of ParseStatement is kept
Return(r) ==
  /\ pst' = r.s
  /\ result' = [err |-> r.err, v |-> r.v]
  /\ pc' = IF r.err = NoErr THEN "parsed" ELSE "failed"

\* p.ParseStatement() after p.SetParams(params)
ParseBoundStatementStep ==
  /\ pc = "ready"
  /\ Return(Invoke("ParseStatement", <<pst>>))
  /\ UNCHANGED <<input, params, shape, printed, result2, semi, stmts>>

\* strings.Join over parts of a message
JoinParts(xs, sep) ==
  IF xs = <<>> THEN <<>>
  ELSE [i \in 1..(2 * Len(xs) - 1) |-> IF i % 2 = 1 THEN xs[(i + 1) \div 2] ELSE sep]

\* ParseError.Error, and Error of the errors made by errors.New and fmt.Errorf
ErrorString(e) ==
  IF e.type # "ParseError" THEN e.Message
  ELSE IF e.Message # <<>>
       THEN e.Message \o <<" at line ">> \o NatDigits(e.Pos.Line + 1)
            \o <<", char ">> \o NatDigits(e.Pos.Char + 1)
       ELSE <<"found ">> \o e.Found \o <<", expected ">> \o JoinParts(e.Expected, ", ")
            \o <<" at line ">> \o NatDigits(e.Pos.Line + 1)
            \o <<", char ">> \o NatDigits(e.Pos.Char + 1)

\* err.Error() of a failed parse
ErrorStep ==
  /\ pc = "failed"
  /\ printed' = ErrorString(result.err)
  /\ pc' = "reported"
  /\ UNCHANGED <<input, params, shape, pst, result, result2, semi, stmts>>

NextClause == SetParamsStep \/ ParseBoundStatementStep \/ ErrorStep

SpecClause == InitClause /\ [][NextClause]_vars


\* ---------------------------------------------------------------------------
\* Properties of the clauses of a SELECT statement

\* the attribute of the SelectStatement a keyword fills
LimitAttr(v, kw) ==
  CASE kw = "LIMIT" -> v.Limit
    [] kw = "OFFSET" -> v.Offset
    [] kw = "SLIMIT" -> v.SLimit
    [] kw = "SOFFSET" -> v.SOffset

LimitsNonNegative(v) == \A kw \in LimitKeywords : ~LimitAttr(v, kw).neg

\* C11: each of LIMIT, OFFSET, SLIMIT and SOFFSET is 0 when its keyword is
\* absent, equals the non-negative integer n written (or bound) after the
\* keyword for every n an INTEGER token can spell, fails with
\* "<KEYWORD> must be >= 0" when the value is negative, and after every
\* successful parse all four attributes are >= 0.
C11_LimitValue ==
  /\ (pc = "parsed" /\ result.v.kind = "SelectStatement") => LimitsNonNegative(result.v)
  /\ (pc \in {"parsed", "failed"} /\ shape.k = "limit") =>
       CASE shape.arg.a = "absent" ->
              /\ result.err = NoErr
              /\ \A kw \in LimitKeywords : LimitAttr(result.v, kw) = IntZero
         [] shape.arg.a = "lit" ->
              /\ result.err = NoErr
              /\ LimitAttr(result.v, shape.kw) = Int64(FALSE, DNorm(shape.arg.digits))
              /\ \A kw \in LimitKeywords \ {shape.kw} : LimitAttr(result.v, kw) = IntZero
         [] shape.arg.a = "bound" /\ ~shape.arg.raw.v.neg ->
              /\ result.err = NoErr
              /\ LimitAttr(result.v, shape.kw) = shape.arg.raw.v
         [] shape.arg.a = "bound" /\ shape.arg.raw.v.neg ->
              /\ result.err # NoErr
              /\ result.err.type = "ParseError"
              /\ result.err.Message = TokenString(shape.kw) \o <<" must be >= 0">>
         [] OTHER -> TRUE

\* the fill option and value a fill argument stands for
FillOf(arg) ==
  CASE arg.a = "absent" -> [Fill |-> "NullFill", FillValue |-> Nil]
    [] arg.a = "word" /\ arg.w = <<"n", "u", "l", "l">> -> [Fill |-> "NullFill", FillValue |-> Nil]
    [] arg.a = "word" /\ arg.w = <<"n", "o", "n", "e">> -> [Fill |-> "NoFill", FillValue |-> Nil]
    [] arg.a = "word" /\ arg.w = <<"p", "r", "e", "v", "i", "o", "u", "s">> -> [Fill |-> "PreviousFill", FillValue |-> Nil]
    [] arg.a = "word" /\ arg.w = <<"l", "i", "n", "e", "a", "r">> -> [Fill |-> "LinearFill", FillValue |-> Nil]
    [] arg.a = "int" ->
         [Fill |-> "NumberFill", FillValue |-> [t |-> "int64", v |-> Int64(arg.neg, DNorm(arg.digits))]]
    [] arg.a = "float" ->
         [Fill |-> "NumberFill", FillValue |-> [t |-> "float64", v |-> Float(arg.neg, arg.ip, arg.fp)]]
    [] arg.a = "bound" -> [Fill |-> "NumberFill", FillValue |-> arg.raw]

\* C12: after every successful parse of a SELECT statement FillValue is
\* non-nil exactly when Fill is NumberFill, and then it is the int64 or float
\* argument written in fill(...); fill(null), fill(none), fill(previous) and
\* fill(linear) give NullFill, NoFill, PreviousFill and LinearFill without a
\* FillValue; a statement without a fill clause has NullFill and no FillValue.
C12_FillValue ==
  /\ (pc = "parsed" /\ result.v.kind = "SelectStatement") =>
       (result.v.FillValue # Nil <=> result.v.Fill = "NumberFill")
  /\ (pc \in {"parsed", "failed"} /\ shape.k = "fill" /\ shape.arg.a # "bad") =>
       /\ result.err = NoErr
       /\ result.v.Fill = FillOf(shape.arg).Fill
       /\ result.v.FillValue = FillOf(shape.arg).FillValue

\* fill(-5) parsed to NumberFill with the int64 value -5
C12_Witness ==
  /\ pc = "parsed"
  /\ shape.k = "fill" /\ shape.arg.a = "int" /\ shape.arg.neg /\ shape.arg.digits = <<"5">>
  /\ input = <<"S", "E", "L", "E", "C", "T", " ", "x", " ", "F", "R", "O", "M", " ", "m", " ", "f", "i", "l", "l", "(", "-", "5", ")">>
  /\ result.v.Fill = "NumberFill"
  /\ result.v.FillValue = [t |-> "int64", v |-> Int64(TRUE, <<"5">>)]

\* strings.HasSuffix over the parts of a message
HasSuffix(parts, suffix) ==
  /\ Len(parts) >= Len(suffix)
  /\ SubSeq(parts, Len(parts) - Len(suffix) + 1, Len(parts)) = suffix

\* C13: every semantic error the parser returns (invalid operator in SELECT,
\* too many segments, negative LIMIT, unsupported ORDER BY, bad fill argument,
\* missing or empty bound parameter, unknown time zone, number parse failure,
\* integer overflow under unary minus) is a ParseError that carries a message
\* and the position of the offending token, and its rendering ends with
\* "at line L, char C" with the 1-based position of that token.
C13_SemanticErrors ==
  (pc = "reported" /\ shape.k = "error") =>
    /\ result.err.type = "ParseError"
    /\ result.err.Message # <<>>
    /\ result.err.Pos = Pos(0, Len(shape.pre))
    /\ HasSuffix(printed, <<" at line ", "1", ", char ">> \o NatDigits(Len(shape.pre) + 1))

\* ---------------------------------------------------------------------------
\* The caller of QuoteIdent and parseSegmentedIdents: a list of segments is
\* quoted and the text is parsed as a segmented identifier

\* segments: empty, plain, a keyword, with a dot, a quote, a backslash, a
\* newline, a carriage return, a space
SegmentStrings == {<<>>, <<"a">>, <<"s", "e", "l", "e", "c", "t">>, <<"a", ".", "b">>, <<"\"">>, <<"\\">>, <<NL>>, <<CR>>, <<"a", " ", "b">>}

PlainSegments == {<<>>, <<"a">>, <<"x", ".", "y">>}

IdentLists == SeqsOf(SegmentStrings, 1, 2) \cup SeqsOf(PlainSegments, 3, MaxSegments)

InitIdent ==
  /\ shape \in {[k |-> "ident", segs |-> l] : l \in IdentLists}
  /\ input = <<>>
  /\ params = <<>>
  /\ pst = NewParser(<<>>, <<>>)
  /\ pc = "new"
  /\ result = NoResult
  /\ printed = <<>> /\ result2 = NoResult /\ semi = TRUE /\ stmts = <<>>

\* Quoted(text): the parser is made over the text QuoteIdent returned
Quoted(text) ==
  /\ input' = text
  /\ pst' = NewParser(text, <<>>)
  /\ pc' = "quoted"

\* QuoteIdent(segs...) and NewParser over its result
QuoteIdentStep ==
  /\ pc = "new" /\ shape.k = "ident"
  /\ Quoted(Invoke("QuoteIdent", <<shape.segs>>))
  /\ UNCHANGED <<params, shape, result, printed, result2, semi, stmts>>

\* p.parseSegmentedIdents()
ParseSegmentedIdentsStep ==
  /\ pc = "quoted"
  /\ Return(Invoke("parseSegmentedIdents", <<pst>>))
  /\ UNCHANGED <<input, params, shape, printed, result2, semi, stmts>>

NextIdent == QuoteIdentStep \/ ParseSegmentedIdentsStep

SpecIdent == InitIdent /\ [][NextIdent]_vars

\* C14: for every list of one to three segments (empty segments, keywords,
\* dots, quotes, backslashes, newlines, carriage returns and other characters
\* that are not identifier characters included) the text QuoteIdent(segs...)
\* parses as a segmented identifier to exactly the same list of segments.
C14_QuoteIdentRoundTrip ==
  (pc \in {"parsed", "failed"} /\ shape.k = "ident" /\ Len(shape.segs) <= 3) =>
    /\ result.err = NoErr
    /\ result.v = shape.segs

\* ---------------------------------------------------------------------------
\* The caller of FormatDuration and ParseDuration: a duration is formatted and
\* the text is parsed

\* magnitudes in nanoseconds, each with its text in the largest unit that
\* divides it
DurationTexts ==
  {<<<<"1">>, <<"1", "n", "s">>>>, <<<<"7">>, <<"7", "n", "s">>>>, <<<<"1", "5", "0", "0">>, <<"1", "5", "0", "0", "n", "s">>>>,
   <<<<"1", "0", "0", "0">>, <<"1", "u">>>>, <<<<"1", "0", "0", "0", "0", "0", "0">>, <<"1", "m", "s">>>>, <<<<"3", "0", "0", "0", "0", "0", "0">>, <<"3", "m", "s">>>>,
   <<<<"1", "5", "0", "0", "0", "0", "0", "0", "0", "0">>, <<"1", "5", "0", "0", "m", "s">>>>, <<<<"1", "0", "0", "0", "0", "0", "0", "0", "0", "0">>, <<"1", "s">>>>,
   <<<<"6", "0", "0", "0", "0", "0", "0", "0", "0", "0", "0">>, <<"1", "m">>>>, <<<<"9", "0", "0", "0", "0", "0", "0", "0", "0", "0", "0">>, <<"9", "0", "s">>>>, <<<<"1", "2", "0", "0", "0", "0", "0", "0", "0", "0", "0", "0">>, <<"2", "m">>>>,
   <<<<"3", "6", "0", "0", "0", "0", "0", "0", "0", "0", "0", "0", "0">>, <<"1", "h">>>>, <<<<"7", "2", "0", "0", "0", "0", "0", "0", "0", "0", "0", "0", "0">>, <<"2", "h">>>>,
   <<<<"8", "6", "4", "0", "0", "0", "0", "0", "0", "0", "0", "0", "0", "0">>, <<"1", "d">>>>, <<<<"1", "7", "2", "8", "0", "0", "0", "0", "0", "0", "0", "0", "0", "0", "0">>, <<"2", "d">>>>,
   <<<<"6", "0", "4", "8", "0", "0", "0", "0", "0", "0", "0", "0", "0", "0", "0">>, <<"1", "w">>>>, <<<<"1", "2", "0", "9", "6", "0", "0", "0", "0", "0", "0", "0", "0", "0", "0", "0">>, <<"2", "w">>>>,
   <<<<"9", "2", "2", "3", "3", "7", "2", "0", "3", "6", "8", "5", "4", "7", "7", "5", "8", "0", "7">>, <<"9", "2", "2", "3", "3", "7", "2", "0", "3", "6", "8", "5", "4", "7", "7", "5", "8", "0", "7", "n", "s">>>>,
   <<<<"9", "2", "2", "3", "3", "7", "2", "0", "3", "6", "8", "5", "4", "7", "7", "5", "0", "0", "0">>, <<"9", "2", "2", "3", "3", "7", "2", "0", "3", "6", "8", "5", "4", "7", "7", "5", "u">>>>,
   <<<<"9", "2", "2", "3", "3", "7", "2", "0", "3", "6", "8", "5", "4", "0", "0", "0", "0", "0", "0">>, <<"9", "2", "2", "3", "3", "7", "2", "0", "3", "6", "8", "5", "4", "m", "s">>>>,
   <<<<"9", "2", "2", "3", "3", "7", "2", "0", "3", "6", "0", "0", "0", "0", "0", "0", "0", "0", "0">>, <<"9", "2", "2", "3", "3", "7", "2", "0", "3", "6", "s">>>>,
   <<<<"9", "2", "2", "3", "2", "0", "0", "0", "0", "0", "0", "0", "0", "0", "0", "0", "0", "0", "0">>, <<"1", "5", "2", "5", "0", "w">>>>}

DurationShapes ==
  {[k |-> "duration", d |-> Int64(n, t[1]), text |-> (IF n THEN <<"-">> ELSE <<>>) \o t[2]] :
     n \in BOOLEAN, t \in DurationTexts}
  \cup {[k |-> "duration", d |-> MinInt64, text |-> <<"-", "9", "2", "2", "3", "3", "7", "2", "0", "3", "6", "8", "5", "4", "7", "7", "5", "8", "0", "8", "n", "s">>]}

InitDuration ==
  /\ shape \in DurationShapes
  /\ input = <<>>
  /\ params = <<>>
  /\ pst = NewParser(<<>>, <<>>)
  /\ pc = "new"
  /\ result = NoResult
  /\ printed = <<>> /\ result2 = NoResult /\ semi = TRUE /\ stmts = <<>>

\* FormatDuration(d)
FormatDurationStep ==
  /\ pc = "new" /\ shape.k = "duration"
  /\ printed' = Invoke("FormatDuration", <<shape.d>>)
  /\ pc' = "formatted"
  /\ UNCHANGED <<input, params, shape, pst, result, result2, semi, stmts>>

\* the duration and the error of ParseDuration are kept
ReturnDuration(r) ==
  /\ result' = [err |-> r.err, v |-> r.val]
  /\ pc' = IF r.err = NoErr THEN "parsed" ELSE "failed"

\* ParseDuration(s) on the text FormatDuration returned
ParseDurationStep ==
  /\ pc = "formatted"
  /\ ReturnDuration(Invoke("ParseDuration", <<printed>>))
  /\ UNCHANGED <<input, params, shape, pst, printed, result2, semi, stmts>>

NextDuration == FormatDurationStep \/ ParseDurationStep

SpecDuration == InitDuration /\ [][NextDuration]_vars

\* C15: for every non-zero int64 duration d, negative values and the two
\* extreme values included, FormatDuration(d) is the count of the largest unit
\* among w, d, h, m, s, ms, u, ns that divides d exactly, and
\* ParseDuration(FormatDuration(d)) succeeds and returns d.
C15_DurationRoundTrip ==
  (shape.k = "duration" /\ pc # "new") =>
    /\ printed = shape.text
    /\ pc # "formatted" => (result.err = NoErr /\ result.v = shape.d)

\* ---------------------------------------------------------------------------
\* The caller of the buffered scanner: Scan, ScanRegex and Unscan in any
\* order, next to an unbounded token stream with pushback over the same text

MaxCalls == 7
MaxPending == 2

BufTexts == {<<"a", " ", "b", " ", "c", " ", "d", " ", "e", " ", "f", " ", "g", " ", "h">>, <<"x", " ", "=", "~", " ", "/", "r", "/", " ", "1", ".", "5", " ", "2", "h", " ", "'", "q", "'">>}

\* the part of the state the underlying scanner works on
ReaderOf(s) == [in |-> s.in, k |-> s.k, ri |-> s.ri, rn |-> s.rn, rpos |-> s.rpos, eof |-> s.eof, rbuf |-> s.rbuf]

\* an unbounded stream: every token the underlying scanner returned, the
\* number of tokens pushed back, and the tokens handed out
NewStream(text) == [s |-> NewParser(text, <<>>), hist |-> <<>>, n |-> 0, out |-> <<>>]

\* the next token of the stream after the underlying scanner returned t
StreamFresh(st, t) ==
  [st EXCEPT !.s = t.s,
             !.hist = Append(@, [pos |-> t.pos, tok |-> t.tok, lit |-> t.lit]),
             !.out = Append(@, [pos |-> t.pos, tok |-> t.tok, lit |-> t.lit])]

\* the next token of the stream: the oldest pushed-back token, or a fresh one
StreamScan(st, fn) ==
  IF st.n > 0
  THEN [st EXCEPT !.n = @ - 1, !.out = Append(@, st.hist[Len(st.hist) - st.n + 1])]
  ELSE IF fn = "ScanRegex" THEN StreamFresh(st, Invoke("scanner_ScanRegex", <<st.s>>))
  ELSE StreamFresh(st, Invoke("scanner_Scan", <<st.s>>))

StreamUnscan(st) == [st EXCEPT !.n = @ + 1]

Calls(log, names) == Cardinality({i \in 1..Len(log) : log[i] \in names})

InitBuf ==
  /\ input \in BufTexts
  /\ shape = [k |-> "buf"]
  /\ params = <<>>
  /\ pst = NewParser(input, <<>>)
  /\ pc = "scanning"
  /\ result = NoResult
  /\ result2 = NewStream(input)
  /\ printed = <<>> /\ semi = TRUE /\ stmts = <<>>

\* the token a scan of the buffered scanner returned is kept
Scanned(t) ==
  /\ pst' = t.s
  /\ stmts' = Append(stmts, [pos |-> t.pos, tok |-> t.tok, lit |-> t.lit])

\* s.Scan()
BufScanStep ==
  /\ pc = "scanning" /\ Len(printed) < MaxCalls
  /\ Scanned(Invoke("bufScanner_Scan", <<pst>>))
  /\ result2' = StreamScan(result2, "Scan")
  /\ printed' = Append(printed, "Scan")
  /\ UNCHANGED <<input, params, shape, pc, result, semi>>

\* s.ScanRegex()
BufScanRegexStep ==
  /\ pc = "scanning" /\ Len(printed) < MaxCalls
  /\ Scanned(Invoke("bufScanner_ScanRegex", <<pst>>))
  /\ result2' = StreamScan(result2, "ScanRegex")
  /\ printed' = Append(printed, "ScanRegex")
  /\ UNCHANGED <<input, params, shape, pc, result, semi>>

\* s.Unscan(), by a caller that keeps at most MaxPending tokens pushed back
\* and never pushes back more often than it scanned
BufUnscanStep ==
  /\ pc = "scanning" /\ Len(printed) < MaxCalls
  /\ result2.n < MaxPending
  /\ Calls(printed, {"Unscan"}) < Calls(printed, {"Scan", "ScanRegex"})
  /\ pst' = Unscan(pst)
  /\ result2' = StreamUnscan(result2)
  /\ printed' = Append(printed, "Unscan")
  /\ UNCHANGED <<input, params, shape, pc, result, semi, stmts>>

NextBuf == BufScanStep \/ BufScanRegexStep \/ BufUnscanStep

SpecBuf == InitBuf /\ [][NextBuf]_vars

\* C16: when at most two Unscans are outstanding and Unscan is never called
\* more often than tokens were scanned, every Scan or ScanRegex returns what
\* an unbounded token stream with pushback returns: the pushed-back tokens
\* (same pos, tok, lit) oldest first, read without the underlying scanner,
\* and after them the next fresh tokens.
C16_Pushback ==
  shape.k = "buf" =>
    /\ stmts = result2.out
    /\ pst.sn = result2.n
    /\ ReaderOf(pst) = ReaderOf(result2.s)

\* two tokens pushed back after three scans came back oldest first and the
\* scan after them returned a fresh token
C16_Witness ==
  /\ shape.k = "buf"
  /\ printed = <<"Scan", "Scan", "Scan", "Unscan", "Unscan", "Scan", "Scan">>
  /\ Len(stmts) = 5
  /\ stmts[4] = stmts[2] /\ stmts[5] = stmts[3] /\ stmts[2] # stmts[3]
  /\ Len(result2.hist) = 3

\* ---------------------------------------------------------------------------
\* The caller of the scanner on texts that begin like a number

NumberLeads == {<<"1">>, <<"1", "0">>, <<"0", "0", "7">>}
NumberFractions == {<<>>, <<".">>, <<".", "5">>, <<".", "2", "5">>}
NumberTails == {<<>>, <<"s">>, <<"m", "s">>, <<MICRO>>, <<"h", "2", "m">>, <<" ", "x">>, <<")">>}

\* digits, what follows them up to the end of the fraction, and the rest;
\* a text may begin with the full stop of its fraction
NumberShapes ==
  {[k |-> "number", lead |-> l, frac |-> f, tail |-> t] :
     l \in NumberLeads, f \in NumberFractions, t \in NumberTails}
  \cup {[k |-> "number", lead |-> <<>>, frac |-> f, tail |-> t] :
          f \in {<<".", "5">>, <<".", "2", "5">>}, t \in NumberTails}

NumberText(sh) == sh.lead \o sh.frac \o sh.tail

InitNumber ==
  /\ shape \in NumberShapes
  /\ input = NumberText(shape)
  /\ params = <<>>
  /\ pst = NewParser(input, <<>>)
  /\ pc = "new"
  /\ result = NoResult
  /\ printed = <<>> /\ result2 = NoResult /\ semi = TRUE /\ stmts = <<>>

\* the token of a scan is kept
ReturnToken(t) ==
  /\ pst' = t.s
  /\ result' = [err |-> NoErr, v |-> [pos |-> t.pos, tok |-> t.tok, lit |-> t.lit]]
  /\ pc' = "scanned"

\* scanner.Scan() at the start of the text
ScanNumberStep ==
  /\ pc = "new" /\ shape.k = "number"
  /\ ReturnToken(Invoke("scanner_Scan", <<pst>>))
  /\ UNCHANGED <<input, params, shape, printed, result2, semi, stmts>>

NextNumber == ScanNumberStep

SpecNumber == InitNumber /\ [][NextNumber]_vars

RECURSIVE LettersAndDigits(_)
\* the longest prefix of letters, micro signs and digits
LettersAndDigits(str) ==
  IF str # <<>> /\ (IsLetter(Head(str)) \/ IsDigit(Head(str)) \/ Head(str) = MICRO)
  THEN <<Head(str)>> \o LettersAndDigits(Tail(str))
  ELSE <<>>

\* a full stop followed by at least one digit
HasFraction(sh) == Len(sh.frac) >= 2

\* the digit run is directly followed by a letter or the micro sign
HasUnit(sh) == sh.frac = <<>> /\ sh.tail # <<>> /\ (IsLetter(sh.tail[1]) \/ sh.tail[1] = MICRO)

\* C17: on a text that starts with a digit, or with a full stop and a digit,
\* Scan returns NUMBER exactly when a fractional part (a full stop followed
\* by at least one digit) was read, DURATIONVAL exactly when no fractional
\* part was read and the digits are directly followed by a letter or the
\* micro sign (the literal then runs over all following letters and digits),
\* and INTEGER otherwise; digits followed by a full stop and no digit are
\* not a NUMBER.
C17_NumberClass ==
  (pc = "scanned" /\ shape.k = "number") =>
    /\ result.v.tok = "NUMBER" <=> HasFraction(shape)
    /\ result.v.tok = "DURATIONVAL" <=> (~HasFraction(shape) /\ HasUnit(shape))
    /\ result.v.tok = "INTEGER" <=> (~HasFraction(shape) /\ ~HasUnit(shape))
    /\ result.v.tok = "DURATIONVAL" => result.v.lit = shape.lead \o LettersAndDigits(shape.tail)
    /\ result.v.tok = "NUMBER" => result.v.lit = shape.lead \o shape.frac
    /\ result.v.tok = "INTEGER" => result.v.lit = shape.lead

\* ---------------------------------------------------------------------------
\* The caller of the reader: the runes of a text are read up to EOF

MaxRunes == 4

ReaderRunes == {"a", CR, NL}

InitReader ==
  /\ input \in SeqsOf(ReaderRunes, 0, MaxRunes)
  /\ shape = [k |-> "reader"]
  /\ params = <<>>
  /\ pst = NewParser(input, <<>>)
  /\ pc = "reading"
  /\ result = NoResult
  /\ printed = <<>> /\ result2 = NoResult /\ semi = TRUE /\ stmts = <<>>

\* the rune a read delivered is kept, EOF ends the reading
Delivered(r) ==
  /\ pst' = r.s
  /\ printed' = IF r.ch = EOF THEN printed ELSE Append(printed, r.ch)
  /\ pc' = IF r.ch = EOF THEN "eof" ELSE "reading"

\* r.read()
ReadStep ==
  /\ pc = "reading" /\ shape.k = "reader"
  /\ Delivered(Invoke("read", <<pst>>))
  /\ UNCHANGED <<input, params, shape, result, result2, semi, stmts>>

NextReader == ReadStep

SpecReader == InitReader /\ [][NextReader]_vars

RECURSIVE Normalized(_)
\* the text with every "\r\n" and every other "\r" replaced by "\n"
Normalized(str) ==
  IF str = <<>> THEN <<>>
  ELSE IF Head(str) = CR
       THEN IF Len(str) >= 2 /\ str[2] = NL
            THEN <<NL>> \o Normalized(Tail(Tail(str)))
            ELSE <<NL>> \o Normalized(Tail(str))
       ELSE <<Head(str)>> \o Normalized(Tail(str))

IsPrefix(p, str) == Len(p) <= Len(str) /\ SubSeq(str, 1, Len(p)) = p

\* C18: the runes the reader delivers are the input with every "\r\n" pair
\* replaced by one "\n" and every "\r" that no "\n" follows replaced by "\n";
\* no other rune is dropped, duplicated or reordered, the rune after a lone
\* "\r" is delivered by the next read, also when "\r" is the last rune.
C18_Newlines ==
  shape.k = "reader" =>
    /\ IsPrefix(printed, Normalized(input))
    /\ pc = "eof" => printed = Normalized(input)

\* "a\r\n\r" was read to its end as "a\n\n"
C18_Witness ==
  /\ shape.k = "reader" /\ pc = "eof"
  /\ input = <<"a", CR, NL, CR>>
  /\ printed = <<"a", NL, NL>>

\* ---------------------------------------------------------------------------
\* The caller of Walk: a statement is parsed and its tree is walked by the
\* visitors of the levels, which prune at some kinds of node

WalkTexts ==
  {<<"S", "E", "L", "E", "C", "T", " ", "x", " ", "F", "R", "O", "M", " ", "m">>,
   <<"S", "E", "L", "E", "C", "T", " ", "x", " ", "+", " ", "y", " ", "*", " ", "2", " ", "F", "R", "O", "M", " ", "m">>,
   <<"S", "E", "L", "E", "C", "T", " ", "f", "(", "x", ",", " ", "g", "(", "y", ")", ")", " ", "F", "R", "O", "M", " ", "m">>,
   <<"S", "E", "L", "E", "C", "T", " ", "(", "x", " ", "+", " ", "1", ")", " ", "A", "S", " ", "a", ",", " ", "y", " ", "F", "R", "O", "M", " ", "m", ",", " ", "n">>,
   <<"S", "E", "L", "E", "C", "T", " ", "x", " ", "F", "R", "O", "M", " ", "m", " ", "W", "H", "E", "R", "E", " ", "a", " ", "=", " ", "1", " ", "A", "N", "D", " ", "b", " ", "=", " ", "2">>,
   <<"S", "E", "L", "E", "C", "T", " ", "x", " ", "F", "R", "O", "M", " ", "m", " ", "W", "H", "E", "R", "E", " ", "a", " ", "=", " ", "1", " ", "G", "R", "O", "U", "P", " ", "B", "Y", " ", "t", " ", "O", "R", "D", "E", "R", " ", "B", "Y", " ", "t", "i", "m", "e", " ", "D", "E", "S", "C">>,
   <<"S", "E", "L", "E", "C", "T", " ", "x", " ", "I", "N", "T", "O", " ", "t", " ", "F", "R", "O", "M", " ", "m", " ", "G", "R", "O", "U", "P", " ", "B", "Y", " ", "t", ",", " ", "u">>,
   <<"S", "E", "L", "E", "C", "T", " ", "x", " ", "F", "R", "O", "M", " ", "(", "S", "E", "L", "E", "C", "T", " ", "f", "(", "y", ")", " ", "F", "R", "O", "M", " ", "m", " ", "G", "R", "O", "U", "P", " ", "B", "Y", " ", "t", ")">>,
   <<"S", "E", "L", "E", "C", "T", " ", "-", "x", " ", "F", "R", "O", "M", " ", "/", "r", "/">>}

PruneKinds == {"SelectStatement", "Fields", "Field", "BinaryExpr", "ParenExpr", "Call", "Sources", "SubQuery", "Dimensions", "Target"}

PruneSets == {{}} \cup {{kind} : kind \in PruneKinds} \cup {{"Call", "ParenExpr"}}

InitWalk ==
  /\ input \in WalkTexts
  /\ shape = [k |-> "walk"]
  /\ params = <<>>
  /\ pst = NewParser(input, <<>>)
  /\ pc = "new"
  /\ result = NoResult
  /\ printed = <<>> /\ result2 = NoResult /\ semi = TRUE /\ stmts = <<>>

\* Walk(v, stmt) with the visitor of the top level
WalkStep ==
  /\ pc = "parsed" /\ shape.k = "walk"
  /\ \E p \in PruneSets :
       result2' = Invoke("Walk", <<LevelNames[1], [prune |-> p, log |-> <<>>], result.v>>)
  /\ pc' = "walked"
  /\ UNCHANGED <<input, params, shape, pst, result, printed, semi, stmts>>

NextWalk == ParseStatementStep \/ WalkStep

SpecWalk == InitWalk /\ [][NextWalk]_vars

\* the children of a node, those of a SelectStatement in the order fields,
\* target, sources, condition, dimensions, sort fields
ChildrenOf(node) ==
  CASE node.kind = "BinaryExpr" -> <<node.LHS, node.RHS>>
    [] node.kind = "Call" -> node.Args
    [] node.kind \in {"Dimension", "Field", "ParenExpr"} -> <<node.Expr>>
    [] node.kind \in {"Dimensions", "Fields", "SortFields", "Sources", "Statements"} -> node.Items
    [] node.kind = "Query" -> <<ListNode("Statements", node.Statements)>>
    [] node.kind = "SelectStatement" ->
         <<ListNode("Fields", node.Fields),
           IF node.Target = Nil THEN TypedNil("Target") ELSE node.Target,
           ListNode("Sources", node.Sources),
           node.Condition,
           ListNode("Dimensions", node.Dimensions),
           ListNode("SortFields", node.SortFields)>>
    [] node.kind = "SubQuery" -> <<node.Statement>>
    [] node.kind = "Target" -> IF IsTypedNil(node) THEN <<>> ELSE <<node.Metric>>
    [] OTHER -> <<>>

RECURSIVE VisitsOf(_, _, _)
RECURSIVE VisitsOfAll(_, _, _)
\* the visits of a pre-order walk below a node: the node by the visitor of
\* level d, then, unless the node is pruned, its children in order by the
\* visitor of level d + 1
VisitsOf(d, node, prune) ==
  IF node = Nil THEN <<>>
  ELSE <<[node |-> node, v |-> LevelNames[d]]>>
       \o (IF node.kind \in prune THEN <<>> ELSE VisitsOfAll(d + 1, ChildrenOf(node), prune))

VisitsOfAll(d, nodes, prune) ==
  IF nodes = <<>> THEN <<>>
  ELSE VisitsOf(d, Head(nodes), prune) \o VisitsOfAll(d, Tail(nodes), prune)

Elements(seq) == {seq[i] : i \in 1..Len(seq)}

Walked == pc = "walked" /\ shape.k = "walk"

C20_WalkOrder ==
  Walked => result2.log = VisitsOf(1, result.v, result2.prune)

\* ---------------------------------------------------------------------------
\* package ast: DataType and its precedence, and the caller of LessThan

\* the data types in the order of their values 0..9
DataTypes == <<"Unknown", "Float", "Integer", "String", "Boolean", "Time", "Duration", "Tag", "AnyField", "Unsigned">>

\* the value of a DataType constant
DataTypeValue(d) == (CHOOSE i \in 1..Len(DataTypes) : DataTypes[i] = d) - 1

\* DataType.LessThan
LessThan(d, other) ==
  IF d = "Unknown" THEN TRUE
  ELSE IF d = "Unsigned" THEN other # "Unknown" /\ DataTypeValue(other) <= DataTypeValue("Integer")
  ELSE IF other = "Unsigned" THEN DataTypeValue(d) >= DataTypeValue("String")
  ELSE other # "Unknown" /\ DataTypeValue(other) < DataTypeValue(d)

InitType ==
  /\ shape \in {[k |-> "types", d |-> DataTypes[i], other |-> DataTypes[j]] :
                  i \in 1..Len(DataTypes), j \in 1..Len(DataTypes)}
  /\ input = <<>>
  /\ params = <<>>
  /\ pst = NewParser(<<>>, <<>>)
  /\ pc = "new"
  /\ result = NoResult
  /\ printed = <<>> /\ result2 = NoResult /\ semi = TRUE /\ stmts = <<>>

\* d.LessThan(other)
LessThanStep ==
  /\ pc = "new" /\ shape.k = "types"
  /\ result' = [err |-> NoErr, v |-> LessThan(shape.d, shape.other)]
  /\ pc' = "compared"
  /\ UNCHANGED <<input, params, shape, pst, printed, result2, semi, stmts>>

NextType == LessThanStep

SpecType == InitType /\ [][NextType]_vars

TypeSet == {DataTypes[i] : i \in 1..Len(DataTypes)}

\* C21: Unknown is the lowest type; for types other than Unknown and
\* Unsigned a.LessThan(b) holds exactly when b has the smaller value;
\* Unsigned sits between Integer and Float (Integer.LessThan(Unsigned) and
\* Unsigned.LessThan(Float)); over the ten types LessThan is irreflexive,
\* asymmetric and transitive.
C21_Precedence ==
  (pc = "compared" /\ shape.k = "types") =>
    LET a == shape.d
        b == shape.other
    IN /\ (a = "Unknown" /\ b # "Unknown") => result.v
       /\ (b = "Unknown" /\ a # "Unknown") => ~result.v
       /\ ({a, b} \cap {"Unknown", "Unsigned"} = {}) =>
            (result.v <=> DataTypeValue(b) < DataTypeValue(a))
       /\ (a = "Integer" /\ b = "Unsigned") => result.v
       /\ (a = "Unsigned" /\ b = "Float") => result.v
       /\ a = b => ~result.v
       /\ result.v => ~LessThan(b, a)
       /\ \A c \in TypeSet : (result.v /\ LessThan(b, c)) => LessThan(a, c)

\* ---------------------------------------------------------------------------
\* The caller of the reader with pushback: read and unread in any order, next
\* to an unbounded rune stream with pushback over the same text

RuneTexts == {<<"a", "b", "c", "d", "e", "f", "g">>, <<"a", CR, NL, "b", CR, "c", NL, NL>>, <<"a", "b">>}

\* an unbounded stream of runes: a reader that is never unread, every
\* (rune, position) it delivered, the number pushed back, and what was handed out
NewRuneStream(text) == [s |-> NewParser(text, <<>>), hist |-> <<>>, n |-> 0, out |-> <<>>]

RuneStreamFresh(st, r) ==
  [st EXCEPT !.s = r.s,
             !.hist = Append(@, [ch |-> r.ch, pos |-> r.pos]),
             !.out = Append(@, [ch |-> r.ch, pos |-> r.pos])]

RuneStreamRead(st) ==
  IF st.n > 0
  THEN [st EXCEPT !.n = @ - 1, !.out = Append(@, st.hist[Len(st.hist) - st.n + 1])]
  ELSE RuneStreamFresh(st, Invoke("read", <<st.s>>))

RuneStreamUnread(st) == [st EXCEPT !.n = @ + 1]

InitUnread ==
  /\ input \in RuneTexts
  /\ shape = [k |-> "unread"]
  /\ params = <<>>
  /\ pst = NewParser(input, <<>>)
  /\ pc = "reading"
  /\ result = NoResult
  /\ result2 = NewRuneStream(input)
  /\ printed = <<>> /\ semi = TRUE /\ stmts = <<>>

\* the rune and the position a read returned are kept
ReadRuneKept(r) ==
  /\ pst' = r.s
  /\ stmts' = Append(stmts, [ch |-> r.ch, pos |-> r.pos])

\* r.read()
ReaderReadStep ==
  /\ pc = "reading" /\ shape.k = "unread" /\ Len(printed) < MaxCalls
  /\ ReadRuneKept(Invoke("read", <<pst>>))
  /\ result2' = RuneStreamRead(result2)
  /\ printed' = Append(printed, "read")
  /\ UNCHANGED <<input, params, shape, pc, result, semi>>

\* r.unread(), by a caller that keeps at most MaxPending runes pushed back and
\* never unreads more often than it read
ReaderUnreadStep ==
  /\ pc = "reading" /\ shape.k = "unread" /\ Len(printed) < MaxCalls
  /\ result2.n < MaxPending
  /\ Calls(printed, {"unread"}) < Calls(printed, {"read"})
  /\ pst' = unread(pst)
  /\ result2' = RuneStreamUnread(result2)
  /\ printed' = Append(printed, "unread")
  /\ UNCHANGED <<input, params, shape, pc, result, semi, stmts>>

NextUnread == ReaderReadStep \/ ReaderUnreadStep

SpecUnread == InitUnread /\ [][NextUnread]_vars

\* C22: when at most two unreads are outstanding and unread is never called
\* more often than runes were read, every read made while runes are pending
\* returns the pushed-back (rune, position) pairs unchanged, oldest first,
\* without reading from or advancing the underlying stream, and the position
\* counter of the reader is not advanced again for replayed runes.
C22_RunePushback ==
  shape.k = "unread" =>
    /\ stmts = result2.out
    /\ pst.rn = result2.n
    /\ pst.k = result2.s.k
    /\ pst.rpos = result2.s.rpos
    /\ pst.eof = result2.s.eof

\* "a\r\nb..." read twice, unread twice and read three times: a and the
\* newline came back with their positions, oldest first, then b was read
C22_Witness ==
  /\ shape.k = "unread"
  /\ input = <<"a", CR, NL, "b", CR, "c", NL, NL>>
  /\ printed = <<"read", "read", "unread", "unread", "read", "read", "read">>
  /\ stmts = <<[ch |-> "a", pos |-> Pos(0, 0)], [ch |-> NL, pos |-> Pos(0, 1)],
               [ch |-> "a", pos |-> Pos(0, 0)], [ch |-> NL, pos |-> Pos(0, 1)], [ch |-> "b", pos |-> Pos(1, 0)]>>

\* ---------------------------------------------------------------------------
\* The caller of the scanner that scans on after EOF, over texts that may
\* hold the rune U+0000

EOFRunes == {"a", " ", EOF}

InitEOF ==
  /\ input \in SeqsOf(EOFRunes, 0, MaxRunes)
  /\ shape = [k |-> "eof"]
  /\ params = <<>>
  /\ pst = NewParser(input, <<>>)
  /\ pc = "scanning"
  /\ result = NoResult
  /\ printed = <<>> /\ result2 = NoResult /\ semi = TRUE /\ stmts = <<>>

\* scanner.Scan(), again and again
ScanOnStep ==
  /\ pc = "scanning" /\ shape.k = "eof" /\ Len(stmts) < MaxCalls
  /\ Scanned(Invoke("scanner_Scan", <<pst>>))
  /\ UNCHANGED <<input, params, shape, pc, result, printed, result2, semi>>

NextEOF == ScanOnStep

SpecEOF == InitEOF /\ [][NextEOF]_vars

\* C23: EOF is sticky, also on texts that hold the rune U+0000: once a read
\* returned the EOF marker every later fresh read returns it, so Scan
\* returns the EOF token forever after it first returned it.
C23_StickyEOF ==
  shape.k = "eof" =>
    \A i, j \in 1..Len(stmts) : (i < j /\ stmts[i].tok = "EOF") => stmts[j].tok = "EOF"

\* ---------------------------------------------------------------------------
\* The callers of ParseExpr, ParseStatement and ParseQuery over every short
\* text of the runes that make the scanner and the parser push back

MaxText == 2

DepthRunes == {"p", "5", ".", "-", "(", " ", "\"", "/", "$"}

DepthHeads == {<<>>, <<"S", "E", "L", "E", "C", "T", " ">>, <<"S", "E", "L", "E", "C", "T", " ", "p", " ", "F", "R", "O", "M", " ">>, <<"S", "E", "L", "E", "C", "T", " ", "p", " ", "F", "R", "O", "M", " ", "p", " ", "W", "H", "E", "R", "E", " ", "p", " ", "=", "~", " ">>, <<"S", "E", "L", "E", "C", "T", " ", "p", " ", "F", "R", "O", "M", " ", "p", " ", "G", "R", "O", "U", "P", " ", "B", "Y", " ">>}

\* longer texts where two pushbacks meet
DepthStress == {<<"-", "p", ".", "p">>, <<"5", ".", "5", "p">>, <<".", "5", ".", "5">>, <<"\"", "p", "\"", ".", "\"", "p", "\"">>, <<"p", ":", ":", "f", "l", "o", "a", "t">>, <<"-", "(", "p", ")">>, <<"p", "(", "5", ")", ".", "p">>, <<"-", "5", ".", "p">>, <<"/", "p", "/", " ", "p">>, <<"p", ".", "5", " ", "-", " ", ".", "5">>, <<"$", "p", ".", "p">>, <<"p", " ", "/", "p", "/">>, <<"p", "(", "-", "p", ",", " ", ".", "5", ")">>, <<"-", ".", "5">>, <<"5", ".", ".", "5">>, <<"p", ";">>, <<"p", ";", "5">>}

DepthTails == SeqsOf(DepthRunes, 0, MaxText) \cup DepthStress

DepthParams == (<<"p">> :> [t |-> "int64", v |-> Int64(FALSE, <<"7">>)])

InitDepth ==
  /\ shape \in {[k |-> "depth", head |-> h, tail |-> t] : h \in DepthHeads, t \in DepthTails}
  /\ input = shape.head \o shape.tail
  /\ params = DepthParams
  /\ pst = NewParser(input, <<>>)
  /\ pc \in {"new", "loop"}
  /\ result = NoResult
  /\ printed = <<>> /\ result2 = NoResult /\ semi = TRUE /\ stmts = <<>>

NextDepth ==
  \/ SetParamsStep
  \/ ParseExprStep
  \/ ParseStatementStep
  \/ ParseBoundStatementStep
  \/ QueryEOF
  \/ QuerySemicolon
  \/ QueryMissingSemicolon
  \/ QueryStatement
  \/ QueryStatementError

SpecDepth == InitDepth /\ [][NextDepth]_vars

\* C24: at every moment of a parse (ParseQuery, ParseStatement or ParseExpr,
\* with or without parameters bound) at most 2 tokens are unscanned in the
\* buffered scanner and at most 2 runes are unread in the reader, so a
\* replay never reaches a ring slot that was overwritten.
C24_PushbackDepth ==
  shape.k = "depth" => (pst.snMax <= 2 /\ pst.rnMax <= 2)

C24_Witness ==
  /\ shape.k = "depth" /\ pc \in {"done", "parsed"}
  /\ pst.snMax = 2 /\ pst.rnMax = 2

\* ---------------------------------------------------------------------------
\* The caller of the scanner that keeps, beside each token, the place in the
\* text where its scan began

PosRunes == {"a", " ", "'", "(", NL, "-"}

InitPos ==
  /\ input \in SeqsOf(PosRunes, 0, MaxRunes)
  /\ shape = [k |-> "pos"]
  /\ params = <<>>
  /\ pst = NewParser(input, <<>>)
  /\ pc = "scanning"
  /\ result = NoResult
  /\ printed = <<>> /\ result2 = NoResult /\ semi = TRUE /\ stmts = <<>>

\* the number of runes of the text that are consumed and not pushed back
Offset(s) ==
  s.k - Cardinality({j \in 0..(s.rn - 1) : s.rbuf[((s.ri - j + ReaderRingLen) % ReaderRingLen) + 1].ch # EOF})

\* scanner.Scan(), again and again
ScanPosStep ==
  /\ pc = "scanning" /\ shape.k = "pos" /\ Len(stmts) < MaxCalls
  /\ Scanned(Invoke("scanner_Scan", <<pst>>))
  /\ printed' = Append(printed, Offset(pst))
  /\ UNCHANGED <<input, params, shape, pc, result, result2, semi>>

NextPos == ScanPosStep

SpecPos == InitPos /\ [][NextPos]_vars

\* the zero-based (line, char) of the rune that follows the first n runes
PosAt(text, n) ==
  LET nls == {i \in 1..n : text[i] = NL}
      last == IF nls = {} THEN 0 ELSE CHOOSE i \in nls : \A j \in nls : j <= i
  IN Pos(Cardinality(nls), n - last)

\* C25: the position returned with every token is the zero-based (line,
\* char) of the first rune of the token (the opening quote of a string), and
\* the position returned with the EOF token is the one just past the last rune
\* of the text, whatever token came before and however often EOF was read.
C25_TokenPositions ==
  shape.k = "pos" => \A i \in 1..Len(stmts) : stmts[i].pos = PosAt(input, printed[i])

\* the part of C25 about the tokens other than strings and EOF
PositionsOfOthers ==
  shape.k = "pos" =>
    \A i \in 1..Len(stmts) :
      stmts[i].tok \notin {"EOF", "STRING", "BADSTRING", "BADESCAPE"} => stmts[i].pos = PosAt(input, printed[i])

\* the part of C25 about the first EOF token
PositionOfFirstEOF ==
  shape.k = "pos" =>
    \A i \in 1..Len(stmts) :
      (stmts[i].tok = "EOF" /\ \A j \in 1..(i - 1) : stmts[j].tok # "EOF") => stmts[i].pos = PosAt(input, Len(input))

\* ---------------------------------------------------------------------------
\* The caller of the scanner that keeps, beside each token, the runes of the
\* text its scan consumed

RunRunes == {"a", "1", ".", "\"", "h", " "}

InitRun ==
  /\ input \in SeqsOf(RunRunes, 0, MaxRunes)
  /\ shape = [k |-> "run"]
  /\ params = <<>>
  /\ pst = NewParser(input, <<>>)
  /\ pc = "scanning"
  /\ result = NoResult
  /\ printed = <<>> /\ result2 = NoResult /\ semi = TRUE /\ stmts = <<>>

\* the token is kept with the runes between the two places in the text
Consumed(t) ==
  /\ Scanned(t)
  /\ printed' = Append(printed, SubSeq(input, Offset(pst) + 1, Offset(t.s)))

\* scanner.Scan(), again and again
ScanRunStep ==
  /\ pc = "scanning" /\ shape.k = "run" /\ Len(stmts) < MaxCalls
  /\ Consumed(Invoke("scanner_Scan", <<pst>>))
  /\ UNCHANGED <<input, params, shape, pc, result, result2, semi>>

NextRun == ScanRunStep

SpecRun == InitRun /\ [][NextRun]_vars

\* the token is a number, or an identifier that begins with a bare rune
IsBareToken(i) ==
  \/ stmts[i].tok \in {"INTEGER", "NUMBER", "DURATIONVAL"}
  \/ stmts[i].tok = "IDENT" /\ printed[i] # <<>> /\ IsIdentFirstChar(printed[i][1])

\* the runes of the text before the scan of token i
Before(i) == IF i = 1 THEN 0 ELSE Len(Join([j \in 1..(i - 1) |-> printed[j]], <<>>))

\* C26: no rune of the text is dropped: the runes a Scan consumes for a bare
\* IDENT, an INTEGER, a NUMBER or a DURATIONVAL are the runes of its literal;
\* the literal of a bare identifier is the longest run of identifier runes
\* (also when a double quote follows it); a full stop that no digit follows
\* stays in the text after a run of digits.
C26_NoRuneDropped ==
  shape.k = "run" =>
    \A i \in 1..Len(stmts) :
      IsBareToken(i) =>
        /\ printed[i] = stmts[i].lit
        /\ stmts[i].tok = "IDENT" =>
             /\ \A j \in 1..Len(stmts[i].lit) : IsIdentChar(stmts[i].lit[j])
             /\ LET next == Before(i) + Len(printed[i]) + 1
                IN next <= Len(input) => ~IsIdentChar(input[next])

\* the part of C26 about the tokens that no double quote and no full stop ends
RunsOfOthers ==
  shape.k = "run" =>
    \A i \in 1..Len(stmts) :
      (IsBareToken(i) /\ printed[i][Len(printed[i])] \notin {"\"", "."}) => printed[i] = stmts[i].lit

\* C27: Walk never calls Visit with a nil node: every node passed to Visit
\* during the walk of a parsed statement (also one without INTO, WHERE,
\* GROUP BY or ORDER BY) is a non-nil value whose fields can be read.
C27_NoNilVisit ==
  Walked => \A i \in 1..Len(result2.log) : ~IsTypedNil(result2.log[i].node)

\* the part of C27 about the statements that have an INTO clause
NoNilVisitWithTarget ==
  (Walked /\ result.v.Target # Nil) => \A i \in 1..Len(result2.log) : ~IsTypedNil(result2.log[i].node)

\* ---------------------------------------------------------------------------
\* package ast: Dimensions.Normalize, and its caller

RECURSIVE NormalizeLoop(_, _, _)
\* the range loop of Normalize; a run-time panic ends it
NormalizeLoop(a, dur, tags) ==
  IF a = <<>> THEN [panic |-> "", dur |-> dur, tags |-> tags]
  ELSE LET expr == Head(a).Expr
       IN IF expr.kind = "Call"
          THEN IF expr.Args = <<>>
               THEN [panic |-> "index out of range", dur |-> dur, tags |-> tags]
               ELSE IF expr.Args[1].kind # "DurationLiteral"
                    THEN [panic |-> "nil pointer dereference", dur |-> dur, tags |-> tags]
                    ELSE NormalizeLoop(Tail(a), expr.Args[1].Val, tags)
          ELSE IF expr.kind = "VarRef"
               THEN NormalizeLoop(Tail(a), dur, Append(tags, expr.Val))
               ELSE NormalizeLoop(Tail(a), dur, tags)

\* Dimensions.Normalize
Normalize(a) == NormalizeLoop(a, Int64(FALSE, <<"0">>), <<>>)

MaxDims == 2

DimensionTexts == {<<"t", "i", "m", "e", "(", "5", "m", ")">>, <<"t", "i", "m", "e", "(", ")">>, <<"t", "i", "m", "e", "(", "x", ")">>, <<"f", "(", "1", ",", " ", "2", ")">>, <<"x">>, <<"*">>, <<"/", "r", "/">>}

NormalizeText(dims) == ClauseHead \o <<" ", "G", "R", "O", "U", "P", " ", "B", "Y", " ">> \o Join(dims, <<",", " ">>)

InitNormalize ==
  /\ shape \in {[k |-> "normalize", dims |-> d] : d \in SeqsOf(DimensionTexts, 1, MaxDims)}
  /\ input = NormalizeText(shape.dims)
  /\ params = <<>>
  /\ pst = NewParser(input, <<>>)
  /\ pc = "new"
  /\ result = NoResult
  /\ printed = <<>> /\ result2 = NoResult /\ semi = TRUE /\ stmts = <<>>

\* stmt.Dimensions.Normalize() on a parsed statement
NormalizeStep ==
  /\ pc = "parsed" /\ shape.k = "normalize"
  /\ result2' = Normalize(result.v.Dimensions)
  /\ pc' = "normalized"
  /\ UNCHANGED <<input, params, shape, pst, result, printed, semi, stmts>>

NextNormalize == ParseStatementStep \/ NormalizeStep

SpecNormalize == InitNormalize /\ [][NextNormalize]_vars

\* C28: Normalize does not panic on the dimensions of a parsed SELECT (also
\* with calls that have no argument or a first argument that is no
\* duration, wildcards and regexes); it returns an interval and a tag list,
\* and the interval is 0 when no dimension is time(duration).
C28_NormalizeTotal ==
  pc = "normalized" =>
    /\ result2.panic = ""
    /\ (\A i \in 1..Len(shape.dims) : shape.dims[i] # <<"t", "i", "m", "e", "(", "5", "m", ")">>) => result2.dur = Int64(FALSE, <<"0">>)

\* the part of C28 about the clauses that hold no call other than
\* time(duration)
NormalizeWithoutOtherCalls ==
  (pc = "normalized" /\ \A i \in 1..Len(shape.dims) : shape.dims[i] \in {<<"t", "i", "m", "e", "(", "5", "m", ")">>, <<"x">>, <<"*">>, <<"/", "r", "/">>}) =>
    /\ result2.panic = ""
    /\ (\A i \in 1..Len(shape.dims) : shape.dims[i] # <<"t", "i", "m", "e", "(", "5", "m", ")">>) => result2.dur = Int64(FALSE, <<"0">>)
    /\ Len(result2.tags) = Cardinality({i \in 1..Len(shape.dims) : shape.dims[i] = <<"x">>})

\* ---------------------------------------------------------------------------
\* The caller of ParseExpr over texts that begin with a unary sign

SignTexts == {<<"-">>, <<"+">>, <<"-", " ">>, <<"-", "-">>, <<"-", "+">>, <<"-", "(">>}

SignOperands ==
  {<<"5">>, <<"5", ".", "5">>, <<".", "5">>, <<"5", "m">>, <<"5", "x">>, <<"9", "2", "2", "3", "3", "7", "2", "0", "3", "6", "8", "5", "4", "7", "7", "5", "8", "0", "8">>, <<"1", "8", "4", "4", "6", "7", "4", "4", "0", "7", "3", "7", "0", "9", "5", "5", "1", "6", "1", "5">>, <<"1", "8", "4", "4", "6", "7", "4", "4", "0", "7", "3", "7", "0", "9", "5", "5", "1", "6", "1", "6">>,
   <<"x">>, <<"\"", "x", "\"">>, <<"x", ".", "y">>, <<"x", ":", ":", "t", "a", "g">>, <<"f", "(", "x", ")">>, <<"f", "(", ")">>, <<"f", "(", "/", "r", "/", ")">>, <<"(", "x", ")">>, <<"(", "'", "a", "'", ")">>, <<"(", "t", "r", "u", "e", ")">>, <<"(", "x", " ", "=", " ", "5", ")">>, <<"(", "-", "5", ")">>,
   <<"t", "r", "u", "e">>, <<"'", "a", "'">>, <<"*">>, <<"/", "r", "/">>, <<"d", "i", "s", "t", "i", "n", "c", "t", "(", "x", ")">>, <<"$", "q">>, <<"$">>, <<"x", " ", "+", " ", "5">>, <<"5", " ", "*", " ", "-", "x">>}

\* what a caller may bind to the parameter p, one value for each kind of token
SignRawValues ==
  RawValues
  \cup {[t |-> "float64", v |-> Float(FALSE, <<"1">>, <<"5">>)],
        [t |-> "map", v |-> [k |-> <<"i", "d", "e", "n", "t">>, t |-> "string", v |-> <<"x">>]],
        [t |-> "map", v |-> [k |-> <<"i", "d", "e", "n", "t">>, t |-> "string", v |-> <<"t", "r", "u", "e">>]],
        [t |-> "map", v |-> [k |-> <<"i", "d", "e", "n", "t">>, t |-> "string", v |-> <<>>]],
        [t |-> "map", v |-> [k |-> <<"s", "t", "r", "i", "n", "g">>, t |-> "string", v |-> <<"a">>]],
        [t |-> "map", v |-> [k |-> <<"d", "u", "r", "a", "t", "i", "o", "n">>, t |-> "string", v |-> <<"x">>]],
        [t |-> "map", v |-> [k |-> <<"d", "u", "r", "a", "t", "i", "o", "n">>, t |-> "string", v |-> <<"5", "m">>]]}

SignShapes ==
  {[k |-> "sign", sign |-> sg, operand |-> o, raw |-> [t |-> "nil", v |-> Nil]] : sg \in SignTexts, o \in SignOperands}
  \cup {[k |-> "sign", sign |-> sg, operand |-> o, raw |-> r] : sg \in SignTexts, o \in {<<"$", "p">>, <<"$", "p", "(", "x", ")">>, <<"$", "p", ".", "x">>}, r \in SignRawValues}

InitSign ==
  /\ shape \in SignShapes
  /\ input = shape.sign \o shape.operand \o (IF shape.sign = <<"-", "(">> THEN <<")">> ELSE <<>>)
  /\ params = (<<"p">> :> shape.raw)
  /\ pst = NewParser(input, <<>>)
  /\ pc = "new"
  /\ result = NoResult
  /\ printed = <<>> /\ result2 = NoResult /\ semi = TRUE /\ stmts = <<>>

NextSign == SetParamsStep \/ ParseExprStep

SpecSign == InitSign /\ [][NextSign]_vars

\* C29: the panic "unexpected literal" of the unary sign is not reached: the
\* operand parsed after a unary + or - whose first token is NUMBER, INTEGER,
\* DURATIONVAL, LPAREN or IDENT is, when it parses, a NumberLiteral, an
\* IntegerLiteral, an UnsignedLiteral, a DurationLiteral, a VarRef, a Call or
\* a ParenExpr, with and without parameters bound.
C29_NoUnexpectedLiteral ==
  shape.k = "sign" => result.err.type # "panic"

\* -$p with p bound to an identifier parsed to the product of -1 and a VarRef
C29_Witness ==
  /\ shape.k = "sign" /\ pc = "done" /\ input = <<"-", "$", "p">>
  /\ shape.raw = [t |-> "map", v |-> [k |-> <<"i", "d", "e", "n", "t">>, t |-> "string", v |-> <<"x">>]]
  /\ result.err = NoErr
  /\ result.v = BinaryExpr("MUL", IntegerLiteral(Int64(TRUE, <<"1">>)), VarRef(<<"x">>, "Unknown"))

\* ---------------------------------------------------------------------------
\* The caller of ParseQuery over short texts that end inside a comment, a
\* string, a regex or a clause, run to its return

TermRunes == {"p", ";", " ", "-", "/", "*", "'", "\"", EOF, NL}

TermHeads == {<<>>, <<"S", "E", "L", "E", "C", "T", " ", "p", " ", "F", "R", "O", "M", " ", "p">>, <<"S", "E", "L", "E", "C", "T", " ", "p", " ", "F", "R", "O", "M", " ", "p", ";">>}

\* longer texts that end inside a loop of the scanner or of the parser
TermStress ==
  {<<"/", "*", " ", "p">>, <<"/", "*", " ", "p", " ", "*">>, <<"-", "-", " ", "p">>, <<"'", "p", "\\">>, <<"\"", "p", "\\">>, <<" ", "W", "H", "E", "R", "E", " ", "p", " ", "=", "~", " ", "/", "p">>, <<" ", "W", "H", "E", "R", "E", " ", "p", " ", "=", "~", " ", "/", "p", "\\">>, <<" ", "G", "R", "O", "U", "P", " ", "B", "Y", " ", "p", ",">>, <<" ", "O", "R", "D", "E", "R", " ", "B", "Y", " ", "p", ",">>,
   <<",", " ", "p", ",">>, <<",", " ", "(", "S", "E", "L", "E", "C", "T", " ", "p", " ", "F", "R", "O", "M", " ", "p">>, <<" ", "W", "H", "E", "R", "E", " ", "f", "(", "p", ",">>, <<" ", "W", "H", "E", "R", "E", " ", "-", "(", "-", "(", "-">>, <<";", ";", ";", " ", "S", "E", "L", "E", "C", "T", " ", "p", " ", "F", "R", "O", "M", " ", "p", " ", ";", ";", " ", "S", "E", "L", "E", "C", "T">>, <<" ", "W", "H", "E", "R", "E", " ", "p", ".", "p", ".", "p", ".">>, <<" ", "L", "I", "M", "I", "T", " ", "1", " ", "O", "F", "F", "S", "E", "T">>}

TermTails == SeqsOf(TermRunes, 0, MaxText) \cup TermStress

MaxTurns == 12

\* result2 holds the turns that are still to come
InitTerm ==
  /\ shape \in {[k |-> "term", head |-> h, tail |-> t] : h \in TermHeads, t \in TermTails}
  /\ input = shape.head \o shape.tail
  /\ params = <<>>
  /\ pst = NewParser(input, <<>>)
  /\ pc = "loop"
  /\ result = NoResult
  /\ result2 = Turns(pst, TRUE, <<>>, MaxTurns)
  /\ printed = <<>> /\ semi = TRUE /\ stmts = <<>>

\* what a turn of the loop leaves
Turned(q) ==
  /\ pst' = q.s
  /\ semi' = q.semi
  /\ stmts' = q.stmts
  /\ pc' = q.pc
  /\ result' = IF q.pc = "loop" THEN result ELSE [err |-> q.err, v |-> q.v]

\* p.ParseQuery(), turn by turn
ParseQueryTurn ==
  /\ pc = "loop" /\ shape.k = "term" /\ result2 # <<>>
  /\ Turned(Head(result2))
  /\ result2' = Tail(result2)
  /\ UNCHANGED <<input, params, shape, printed>>

NextTerm == ParseQueryTurn

SpecTerm == InitTerm /\ [][NextTerm]_vars

\* ParseQuery runs on: a turn that can be taken is taken
LiveTerm == SpecTerm /\ WF_vars(NextTerm)

\* C30: on every text ParseQuery returns in the end, with a Query or with an
\* error: every scan consumes a rune or returns EOF, the loops of the scanner
\* end at EOF, and every turn of a loop of the parser consumes a token.
C30_Termination == <>(pc \in {"returned", "failed"})

\* ParseQuery returned an error after it went round its loop on two
\* statements and five semicolons
C30_Witness ==
  /\ shape.k = "term" /\ pc = "failed"
  /\ input = <<"S", "E", "L", "E", "C", "T", " ", "p", " ", "F", "R", "O", "M", " ", "p", ";", ";", ";", " ", "S", "E", "L", "E", "C", "T", " ", "p", " ", "F", "R", "O", "M", " ", "p", " ", ";", ";", " ", "S", "E", "L", "E", "C", "T">>
  /\ Len(stmts) = 2

\* a part of C30: every Scan consumes a rune of the text or returns EOF
ScanProgress ==
  shape.k = "run" => \A i \in 1..Len(stmts) : printed[i] # <<>> \/ stmts[i].tok = "EOF"

\* a part of C30: a turn of the loop of ParseQuery that does not return reads
\* on in the text or takes a token that was pushed back
TurnProgress == [][pc' = "loop" => (Offset(pst') > Offset(pst) \/ pst'.sn < pst.sn)]_vars
====
